---- MODULE Spec2Model ----
(***************************************************************************)
(* Idletris: the grid/piece state machine, collision and rotation,         *)
(* locking and line clearing, the heuristic planner, the autonomous        *)
(* executor and the multi-board game loop of src/src/main.ts.              *)
(***************************************************************************)
EXTENDS Integers, Sequences, FiniteSets, TLC

\* ------------------------------------------------------------------------
\* Program constants
\* ------------------------------------------------------------------------
GRID_WIDTH == 10
GRID_HEIGHT == 20
DROP_SPEED == 1000
BASE_AI_SPEED == 300
MAX_AI_SPEED_UPGRADES == 5
MAX_BOARDS == 7
TAKE_CONTROL_PIECES == 30
SAFETY_TIMEOUT == 5000
COST_MULTIPLIER == 2

BASE_COSTS ==
  [HARD_DROP |-> 1, HIRE_AI |-> 2, AI_HARD_DROP |-> 10, AI_SPEED |-> 3,
   UNLOCK_NEXT_BOARD |-> 15, RESET_BOARD |-> 5, FORCE_NEXT_PIECE_UNLOCK |-> 4,
   FORCE_NEXT_PIECE_USE |-> 1, TAKE_CONTROL |-> 5]

\* null of the source (an empty grid cell, an absent queue entry)
NULL == "null"

\* a nullable object is a sequence of length 0 (null) or 1
None == <<>>
Some(v) == <<v>>
IsNone(o) == Len(o) = 0
IsSome(o) == Len(o) = 1
Val(o) == o[1]

PIECES ==
  [I |-> << <<0,0,0,0>>, <<1,1,1,1>>, <<0,0,0,0>>, <<0,0,0,0>> >>,
   O |-> << <<1,1>>, <<1,1>> >>,
   T |-> << <<0,1,0>>, <<1,1,1>>, <<0,0,0>> >>,
   S |-> << <<0,1,1>>, <<1,1,0>>, <<0,0,0>> >>,
   Z |-> << <<1,1,0>>, <<0,1,1>>, <<0,0,0>> >>,
   J |-> << <<1,0,0>>, <<1,1,1>>, <<0,0,0>> >>,
   L |-> << <<0,0,1>>, <<1,1,1>>, <<0,0,0>> >>]

PIECE_COLORS ==
  [I |-> "#00F0F0", O |-> "#F0F000", T |-> "#A000F0", S |-> "#00F000",
   Z |-> "#F00000", J |-> "#0000F0", L |-> "#F0A000"]

\* the order of the array in getRandomPieceType
PieceTypeOrder == <<"I", "O", "T", "S", "Z", "J", "L">>

\* ------------------------------------------------------------------------
\* Grid and piece helpers
\* ------------------------------------------------------------------------
EmptyRow == [c \in 1..GRID_WIDTH |-> NULL]

createEmptyGrid == [r \in 1..GRID_HEIGHT |-> EmptyRow]

\* the (row, col) offsets, 0-based as in the source, of the occupied cells
ShapeCells(shape) ==
  {rc \in (0..(Len(shape) - 1)) \X (0..(Len(shape[1]) - 1)) :
      shape[rc[1] + 1][rc[2] + 1] = 1}

\* piece.x of a fresh piece: floor(W/2) - floor(cols/2)
createPiece(type) ==
  [type |-> type,
   shape |-> PIECES[type],
   x |-> (GRID_WIDTH \div 2) - (Len(PIECES[type][1]) \div 2),
   y |-> 0,
   color |-> PIECE_COLORS[type],
   aiRotations |-> 0,      \* the ad hoc property; 0 and undefined are both falsy
   aiStartTime |-> 0,      \* the ad hoc property; 0 and undefined are both falsy
   execSteps |-> 0]        \* history: executor steps applied to this piece

\* rotateShape whose inner loop stops before row 0 (row > 0)
rotateShape_skipsRow0(shape) ==
  LET rows == Len(shape)
      cols == Len(shape[1])
  IN  [c \in 1..cols |-> [i \in 1..(rows - 1) |-> shape[rows + 1 - i][c]]]

\* rotated[col][i] = shape[rows-1-i][col]
rotateShape(shape) ==
  LET rows == Len(shape)
      cols == Len(shape[1])
  IN  [c \in 1..cols |-> [i \in 1..rows |-> shape[rows + 1 - i][c]]]

RECURSIVE RotateTimes(_, _)
RotateTimes(shape, n) ==
  IF n = 0 THEN shape ELSE RotateTimes(rotateShape(shape), n - 1)

\* ------------------------------------------------------------------------
\* Collision detection
\* ------------------------------------------------------------------------
checkCollisionForTest(piece, testGrid) ==
  \E row \in 0..(Len(piece.shape) - 1) :
    \E col \in 0..(Len(piece.shape[row + 1]) - 1) :
      /\ piece.shape[row + 1][col + 1] = 1
      /\ LET boardX == piece.x + col
             boardY == piece.y + row
         IN  \/ boardX < 0
             \/ boardX >= GRID_WIDTH
             \/ boardY >= GRID_HEIGHT
             \/ (boardY >= 0 /\ testGrid[boardY + 1][boardX + 1] # NULL)

checkCollision(board) ==
  IF IsNone(board.currentPiece) THEN FALSE
  ELSE LET piece == Val(board.currentPiece)
       IN  \E rc \in ShapeCells(piece.shape) :
             LET boardX == piece.x + rc[2]
                 boardY == piece.y + rc[1]
             IN  \/ boardX < 0 \/ boardX >= GRID_WIDTH
                 \/ boardY >= GRID_HEIGHT
                 \/ (boardY >= 0 /\ board.grid[boardY + 1][boardX + 1] # NULL)

\* the grid after writing the piece's colour into the cells it covers
\* (the stamping loop shared by lockPiece and simulateMove)
\* the stamping loop without its test of piece.shape[row][col]
StampPiece_fillsBox(grid, piece) ==
  LET Hit(row, col) ==
        /\ row - piece.y + 1 \in 1..Len(piece.shape)
        /\ col - piece.x + 1 \in 1..Len(piece.shape[1])
  IN  [r \in 1..GRID_HEIGHT |->
        [c \in 1..GRID_WIDTH |->
           IF Hit(r - 1, c - 1) THEN piece.color ELSE grid[r][c]]]

StampPiece(grid, piece) ==
  LET rowsHit == {piece.y + rc[1] : rc \in ShapeCells(piece.shape)}
      Hit(row, col) ==
        /\ row - piece.y + 1 \in 1..Len(piece.shape)
        /\ col - piece.x + 1 \in 1..Len(piece.shape[1])
        /\ piece.shape[row - piece.y + 1][col - piece.x + 1] = 1
  IN  [r \in 1..GRID_HEIGHT |->
        IF r - 1 \in rowsHit
        THEN [c \in 1..GRID_WIDTH |->
                IF Hit(r - 1, c - 1) THEN piece.color ELSE grid[r][c]]
        ELSE grid[r]]

\* ------------------------------------------------------------------------
\* Heuristic planner
\* ------------------------------------------------------------------------
\* the while loop of simulateMove and hardDrop: the first y at which the
\* piece collides, minus one
RECURSIVE DropToRest(_, _)
DropToRest(piece, grid) ==
  IF checkCollisionForTest(piece, grid) THEN piece.y - 1
  ELSE DropToRest([piece EXCEPT !.y = @ + 1], grid)

\* testPiece of simulateMove: the piece rotated, at (targetX, 0)
TestPiece(piece, targetX, rotation) ==
  [piece EXCEPT !.shape = RotateTimes(piece.shape, rotation), !.x = targetX, !.y = 0]

\* the test board after the drop and the stamping loop
DropAndStamp(grid, testPiece) ==
  Some(StampPiece(grid, [testPiece EXCEPT !.y = DropToRest(testPiece, grid)]))

\* simulateMove from the creation of testPiece on
SimulateTestPiece(grid, testPiece) ==
  IF checkCollisionForTest(testPiece, grid) THEN None
  ELSE DropAndStamp(grid, testPiece)

\* simulateMove without the test at y = 0
simulateMove_unchecked(grid, piece, targetX, rotation) ==
  DropAndStamp(grid, TestPiece(piece, targetX, rotation))

simulateMove(grid, piece, targetX, rotation) ==
  SimulateTestPiece(grid, TestPiece(piece, targetX, rotation))

\* the test of a row that stops one column early (col < GRID_WIDTH - 1)
IsFullRow_skipsLastColumn(row) == \A c \in 1..(GRID_WIDTH - 1) : row[c] # NULL

IsFullRow(row) == \A c \in 1..GRID_WIDTH : row[c] # NULL

\* GRID_HEIGHT - (first occupied row at or below `row`), 0 if there is none
RECURSIVE HeightFrom(_, _, _)
HeightFrom(g, c, row) ==
  IF row >= GRID_HEIGHT THEN 0
  ELSE IF g[row + 1][c] # NULL THEN GRID_HEIGHT - row
  ELSE HeightFrom(g, c, row + 1)

ColHeight(g, c) == HeightFrom(g, c, 0)

RECURSIVE MaxTo(_, _)
MaxTo(f, n) ==
  IF n = 0 THEN 0
  ELSE LET m == MaxTo(f, n - 1)
           v == f[n]
       IN  IF v > m THEN v ELSE m

\* the heights array of evaluateBoardState, columns 0..n-1
RECURSIVE Heights(_, _)
Heights(g, n) ==
  IF n = 0 THEN <<>> ELSE Append(Heights(g, n - 1), ColHeight(g, n))

Abs(n) == IF n < 0 THEN -n ELSE n

RECURSIVE SumTo(_, _)
SumTo(f, n) == IF n = 0 THEN 0 ELSE f[n] + SumTo(f, n - 1)

\* the four terms of evaluateBoardState, given the column heights
ScoreTerms(testBoard, hts) ==
  [completeLines |-> Cardinality({r \in 1..GRID_HEIGHT : IsFullRow(testBoard[r])}),
   maxHeight |-> MaxTo(hts, GRID_WIDTH),
   holes |-> SumTo([c \in 1..GRID_WIDTH |->
                      Cardinality({r \in (GRID_HEIGHT + 2 - hts[c])..GRID_HEIGHT :
                                     testBoard[r][c] = NULL})], GRID_WIDTH),
   bumpiness |-> SumTo([c \in 1..(GRID_WIDTH - 1) |-> Abs(hts[c + 1] - hts[c])],
                       GRID_WIDTH - 1)]

BoardTerms(testBoard) == ScoreTerms(testBoard, Heights(testBoard, GRID_WIDTH))

WeightedSum(t) ==
  t.completeLines * 1000 - t.maxHeight * 10 - t.holes * 50 - t.bumpiness * 5

\* evaluateBoardState without the bonus for complete lines
evaluateBoardState_noLineBonus(testBoard) ==
  WeightedSum([BoardTerms(testBoard) EXCEPT !.completeLines = 0])

\* evaluateBoardState with the sign of the height term reversed
evaluateBoardState_rewardsHeight(testBoard) ==
  WeightedSum([BoardTerms(testBoard) EXCEPT !.maxHeight = 0 - @])

evaluateBoardState(testBoard) == WeightedSum(BoardTerms(testBoard))

\* the x range of the inner loop for one rotated shape, ascending
XRange(testShape) ==
  LET colsOcc == {rc[2] : rc \in ShapeCells(testShape)}
      minCol == CHOOSE m \in colsOcc : \A q \in colsOcc : m <= q
      maxCol == CHOOSE m \in colsOcc : \A q \in colsOcc : m >= q
      actualWidth == maxCol - minCol + 1
      leftOffset == minCol
  IN  [lo |-> -leftOffset, hi |-> GRID_WIDTH - actualWidth - leftOffset]

\* one iteration of the inner loop: the candidate with the score of its
\* landed board, or None when simulateMove returns null
Scored(x, rotation, resultBoard) ==
  [x |-> x, rotation |-> rotation,
   score |-> IF IsNone(resultBoard) THEN None
             ELSE Some(evaluateBoardState(Val(resultBoard)))]

\* the inner loop over x for one rotation
ForRange(grid, piece, rotation, xr) ==
  [k \in 1..(xr.hi - xr.lo + 1) |->
     Scored(xr.lo + k - 1, rotation, simulateMove(grid, piece, xr.lo + k - 1, rotation))]

\* the candidates in enumeration order (rotation ascending, then x
\* ascending) from `rotation` on
RECURSIVE CandidatesFrom(_, _, _, _)
CandidatesFrom(grid, piece, rotation, maxRotations) ==
  IF rotation >= maxRotations THEN <<>>
  ELSE ForRange(grid, piece, rotation, XRange(RotateTimes(piece.shape, rotation)))
         \o CandidatesFrom(grid, piece, rotation + 1, maxRotations)

Candidates(grid, piece) ==
  CandidatesFrom(grid, piece, 0, IF piece.type = "O" THEN 1 ELSE 4)

\* the comparison with >= : the last of several best candidates wins
Better_orEqual(score, bestScore) == score >= bestScore

\* "if (score > bestScore)"
Better(score, bestScore) == score > bestScore

\* the scan over the candidates; best is None while bestScore = -Infinity
RECURSIVE ScanBest(_, _, _)
ScanBest(cands, i, best) ==
  IF i > Len(cands) THEN best
  ELSE LET c == cands[i]
       IN  IF IsSome(c.score) /\ (IsNone(best) \/ Better(Val(c.score), Val(best).score))
           THEN ScanBest(cands, i + 1, Some([x |-> c.x, rotation |-> c.rotation,
                                             score |-> Val(c.score)]))
           ELSE ScanBest(cands, i + 1, best)

\* the value bestMove has after the loops and the fallback of lines 765-767
OrFallback(piece, best) ==
  IF IsNone(best)
  THEN Some([x |-> piece.x, rotation |-> 0])
  ELSE Some([x |-> Val(best).x, rotation |-> Val(best).rotation])

\* The calls simulateMove(board, board.currentPiece, x, rotation) that the
\* loops of calculateBestMove make for one rotation, in order
CallsFor(rotation, xr) ==
  [k \in 1..(xr.hi - xr.lo + 1) |-> [x |-> xr.lo + k - 1, rotation |-> rotation]]

RECURSIVE CallsFrom(_, _, _)
CallsFrom(piece, rotation, maxRotations) ==
  IF rotation >= maxRotations THEN <<>>
  ELSE CallsFor(rotation, XRange(RotateTimes(piece.shape, rotation)))
         \o CallsFrom(piece, rotation + 1, maxRotations)

Calls(piece) == CallsFrom(piece, 0, IF piece.type = "O" THEN 1 ELSE 4)

\* simulateMove writing into the board's own rows (testBoard = board.grid,
\* without the copy)
BoardAfterSimulate_noCopy(board, targetX, rotation) ==
  LET res == simulateMove(board.grid, Val(board.currentPiece), targetX, rotation)
  IN  IF IsNone(res) THEN board ELSE [board EXCEPT !.grid = Val(res)]

\* The board as one call of simulateMove leaves it.  The stamping loop writes
\* testBoard, whose rows are copies ("board.grid.map(row => [...row])"), and
\* the drop loop moves testPiece, an object made for the call; the shape of
\* the piece is read, and rotateShape builds a new matrix.
BoardAfterSimulate(board, targetX, rotation) == board

RECURSIVE BoardAfterCalls(_, _, _)
BoardAfterCalls(board, calls, k) ==
  IF k > Len(calls) THEN board
  ELSE BoardAfterCalls(BoardAfterSimulate(board, calls[k].x, calls[k].rotation),
                       calls, k + 1)

\* the board as calculateBestMove leaves it
BoardAfterPlanning(board) ==
  IF IsNone(board.currentPiece) THEN board
  ELSE BoardAfterCalls(board, Calls(Val(board.currentPiece)), 1)

calculateBestMove(board) ==
  IF IsNone(board.currentPiece) THEN None
  ELSE OrFallback(Val(board.currentPiece),
                  ScanBest(Candidates(board.grid, Val(board.currentPiece)), 1, None))


\* ------------------------------------------------------------------------
\* Bounds of the model
\* ------------------------------------------------------------------------
\* getRandomPieceType draws among the first NumTypes entries of its array
NumTypes == 2
\* number of boards the model unlocks (MAX_BOARDS in the program)
MaxModelBoards == 2
\* frames, keydown events, button clicks and dialogues in a run that starts
\* from the state after construction
FreshFrames == 2
FreshKeys == 3
FreshDialogues == 1
\* ... in a run that starts from a tall stack under human control
TallFrames == 1
TallKeys == 3
\* ... in a run that starts with two boards
TwoFrames == 2
TwoKeys == 1
TwoClicks == 1
\* ... in a run that starts with one fully upgraded board
MaxedFrames == 2
MaxedKeys == 1
MaxedClicks == 1
\* ... in a run that starts with one board whose AI was just hired
HiredFrames == 2
HiredKeys == 1
HiredClicks == 1
\* frames in a run of the executor at its base cadence
ExecFrames == 16
\* frames in a run that hands one board to the planner
PlanFrames == 1

Types == {PieceTypeOrder[i] : i \in 1..NumTypes}

\* the time between two frames of requestAnimationFrame: just above the
\* base cadence, just above the gravity interval, just above the timeout
SlowFrame == DROP_SPEED + 1
FastFrame == BASE_AI_SPEED + 1
LateFrame == SAFETY_TIMEOUT + 1

\* ------------------------------------------------------------------------
\* State
\* ------------------------------------------------------------------------
VARIABLES
  boards,              \* Board[]; boards[i + 1] is the board with index i
  activeBoardIndex,
  globalPoints,
  globalLinesCleared,
  hardDropUnlocked,
  isGameOver,
  isPaused,
  hasDoublePoints,
  hasHalfCost,
  hasAutoReset,
  now,                 \* the monotonic clock read by performance.now()
  budget,              \* what the environment may still do in this run
  last                 \* history: what the last operation did

vars == <<boards, activeBoardIndex, globalPoints, globalLinesCleared,
          hardDropUnlocked, isGameOver, isPaused, hasDoublePoints,
          hasHalfCost, hasAutoReset, now, budget, last>>

createBoard(index) ==
  [index |-> index,
   grid |-> createEmptyGrid,
   currentPiece |-> None,
   nextPiece |-> NULL,
   isGameOver |-> FALSE,
   lastDropTime |-> 0,
   aiHired |-> FALSE,
   aiEnabled |-> FALSE,
   aiHardDropUnlocked |-> FALSE,
   aiSpeedLevel |-> 0,
   aiSpeed |-> [num |-> BASE_AI_SPEED, den |-> 1],
   aiLastMoveTime |-> 0,
   aiTargetPosition |-> None,
   aiMoving |-> FALSE,
   isMinified |-> FALSE,
   forceNextPieceUnlocked |-> FALSE,
   playerControlPiecesRemaining |-> 0,
   lostOverlay |-> FALSE,  \* the DOM overlay with the reset button is shown
   targetSteps |-> 0,      \* history: executor steps since the target was set
   stepAt |-> None,        \* history: the time of the executor's last move
   fellAt |-> None,        \* history: the time of the last gravity drop
   forced |-> None,        \* history: the type forced into the queue, until spawned
   planTurns |-> 0,        \* history: the rotation of the target last planned
   turns |-> 0,            \* history: rotates applied since that plan
   turnFailed |-> FALSE,   \* history: a rotate has failed since that plan
   kicked |-> FALSE,       \* history: a rotate has moved the piece since that plan
   planFresh |-> FALSE,    \* history: that plan was made for a piece as spawned
   planGrid |-> None]      \* history: what simulateMove returned for that target

\* what one operation did, for the properties that speak of an operation
NoEvents ==
  [spawnCollided |-> {},   \* boards whose spawn collided
   locked |-> {},          \* boards on which a piece was locked
   planned |-> {},         \* boards for which calculateBestMove ran
   executed |-> {},        \* boards on which executeAIMove acted
   cancelled |-> {},       \* boards whose pending target a mode switch cleared
   dropped |-> {},         \* boards on which the executor's drop step ran
   forcedSpawn |-> {},     \* boards whose spawn took a queue entry that was forced
   turned |-> {},          \* boards on which the executor's rotate step ran
   plans |-> {},           \* the calls of calculateBestMove: input and result
   clears |-> {}]          \* the calls of clearLines: grid before, after, result

\* The world an operation runs in: the mutable globals, the value of
\* performance.now() during it (time), the outcomes that Math.random will
\* produce (rnd, ri of them consumed) and the events.
World(rnd, time) ==
  [boards |-> boards, activeBoardIndex |-> activeBoardIndex,
   globalPoints |-> globalPoints, globalLinesCleared |-> globalLinesCleared,
   isGameOver |-> isGameOver, time |-> time, rnd |-> rnd, ri |-> 0,
   ev |-> NoEvents]

B(w, i) == w.boards[i + 1]
SetB(w, i, b) == [w EXCEPT !.boards[i + 1] = b]
Note(w, what, i) == [w EXCEPT !.ev[what] = @ \cup {i}]
NoteIf(cond, w, what, i) == IF cond THEN Note(w, what, i) ELSE w

getRandomPieceType(w) ==
  [w |-> [w EXCEPT !.ri = @ + 1],
   type |-> IF w.ri < Len(w.rnd) THEN w.rnd[w.ri + 1] ELSE PieceTypeOrder[1]]

\* ------------------------------------------------------------------------
\* Cost calculation
\* ------------------------------------------------------------------------
RECURSIVE Pow(_, _)
Pow(a, n) == IF n = 0 THEN 1 ELSE a * Pow(a, n - 1)

\* Math.round(tieredCost * reduction): halves round up
Reduced(tieredCost) ==
  IF hasHalfCost THEN (tieredCost + 1) \div 2 ELSE tieredCost

getBoardCost(baseCost, boardIndex) == Reduced(baseCost * Pow(COST_MULTIPLIER, boardIndex))

getResetCost(boardIndex) == Reduced(BASE_COSTS.RESET_BOARD * Pow(COST_MULTIPLIER, boardIndex))

getNextBoardUnlockCost(currentBoardCount) ==
  Reduced(BASE_COSTS.UNLOCK_NEXT_BOARD * Pow(COST_MULTIPLIER, currentBoardCount - 1))

isBoardMaxedOut(board) ==
  /\ board.aiHired
  /\ board.aiHardDropUnlocked
  /\ board.aiSpeedLevel >= MAX_AI_SPEED_UPGRADES
  /\ board.forceNextPieceUnlocked

\* canUnlockNextBoard without the test of boards.length against MAX_BOARDS
canUnlockNextBoard_noLimit(bs) ==
  /\ Len(bs) # 0
  /\ isBoardMaxedOut(bs[Len(bs)])

canUnlockNextBoard(bs) ==
  /\ Len(bs) < MAX_BOARDS
  /\ Len(bs) # 0
  /\ isBoardMaxedOut(bs[Len(bs)])


\* ------------------------------------------------------------------------
\* Locking, line clearing, spawning, game over
\* (operations take the world w and a board index i, and return the world)
\* ------------------------------------------------------------------------
\* clearLines whose loop does not look again at the row index it cleared
\* (without "row++")
RECURSIVE ClearFrom_noRecheck(_, _, _)
ClearFrom_noRecheck(grid, row, n) ==
  IF row < 0 THEN [grid |-> grid, linesCleared |-> n]
  ELSE IF IsFullRow(grid[row + 1])
       THEN ClearFrom_noRecheck([r \in 1..GRID_HEIGHT |->
                                   IF r = 1 THEN EmptyRow
                                   ELSE IF r <= row + 1 THEN grid[r - 1] ELSE grid[r]],
                                row - 1, n + 1)
       ELSE ClearFrom_noRecheck(grid, row - 1, n)

\* the loop of clearLines from `row` upward; n lines cleared so far
\* the loop of clearLines leaving at its first full row
RECURSIVE ClearFrom_stopsAfterOne(_, _, _)
ClearFrom_stopsAfterOne(grid, row, n) ==
  IF row < 0 THEN [grid |-> grid, linesCleared |-> n]
  ELSE IF IsFullRow(grid[row + 1])
       THEN [grid |-> [r \in 1..GRID_HEIGHT |->
                         IF r = 1 THEN EmptyRow
                         ELSE IF r <= row + 1 THEN grid[r - 1] ELSE grid[r]],
             linesCleared |-> n + 1]
       ELSE ClearFrom_stopsAfterOne(grid, row - 1, n)

RECURSIVE ClearFrom(_, _, _)
ClearFrom(grid, row, n) ==
  IF row < 0 THEN [grid |-> grid, linesCleared |-> n]
  ELSE IF IsFullRow(grid[row + 1])
       THEN ClearFrom([r \in 1..GRID_HEIGHT |->
                         IF r = 1 THEN EmptyRow
                         ELSE IF r <= row + 1 THEN grid[r - 1] ELSE grid[r]],
                      row, n + 1)
       ELSE ClearFrom(grid, row - 1, n)

\* history: clearLines was called on `before` and returned res
NoteClear(w, i, before, res) ==
  [w EXCEPT !.ev.clears = @ \cup {[board |-> i, before |-> before,
                                   after |-> res.grid,
                                   linesCleared |-> res.linesCleared,
                                   pieceThen |-> B(w, i).currentPiece]}]

clearLines(w, i) ==
  LET res == ClearFrom(B(w, i).grid, GRID_HEIGHT - 1, 0)
      multiplier == IF hasDoublePoints THEN 2 ELSE 1
      w1 == NoteClear(SetB(w, i, [B(w, i) EXCEPT !.grid = res.grid]),
                      i, B(w, i).grid, res)
  IN  IF res.linesCleared > 0
      THEN [w1 EXCEPT !.globalLinesCleared = @ + res.linesCleared,
                      !.globalPoints = @ + res.linesCleared * multiplier]
      ELSE w1

\* lockPiece that counts the window down without re-enabling the AI
lockPiece_neverResumes(w, i) ==
  IF IsNone(B(w, i).currentPiece) THEN w
  ELSE LET b == B(w, i)
           w1 == SetB(w, i, [b EXCEPT !.grid = StampPiece(b.grid, Val(b.currentPiece)),
                                      !.currentPiece = None])
           w2 == Note(clearLines(w1, i), "locked", i)
           b2 == B(w2, i)
       IN  IF b2.playerControlPiecesRemaining > 0
           THEN SetB(w2, i, [b2 EXCEPT !.playerControlPiecesRemaining = @ - 1])
           ELSE w2

\* lockPiece handing the board to the AI at every lock
lockPiece_alwaysResumes(w, i) ==
  IF IsNone(B(w, i).currentPiece) THEN w
  ELSE LET b == B(w, i)
           w1 == SetB(w, i, [b EXCEPT !.grid = StampPiece(b.grid, Val(b.currentPiece)),
                                      !.currentPiece = None])
           w2 == Note(clearLines(w1, i), "locked", i)
           b2 == B(w2, i)
       IN  SetB(w2, i,
             [b2 EXCEPT !.playerControlPiecesRemaining = IF @ > 0 THEN @ - 1 ELSE @,
                        !.aiEnabled = TRUE])

lockPiece(w, i) ==
  IF IsNone(B(w, i).currentPiece) THEN w
  ELSE LET b == B(w, i)
           w1 == SetB(w, i, [b EXCEPT !.grid = StampPiece(b.grid, Val(b.currentPiece)),
                                      !.currentPiece = None])
           w2 == Note(clearLines(w1, i), "locked", i)
           b2 == B(w2, i)
       IN  IF b2.playerControlPiecesRemaining > 0
           THEN SetB(w2, i,
                  [b2 EXCEPT !.playerControlPiecesRemaining = @ - 1,
                             !.aiEnabled = IF b2.playerControlPiecesRemaining = 1
                                           THEN TRUE ELSE @])
           ELSE w2

RECURSIVE spawnNewPiece(_, _)
RECURSIVE handleBoardGameOver(_, _)
RECURSIVE autoResetBoard(_, _)

\* showBoardLostOverlay: the overlay with the reset button is attached to a
\* minified board's container
showBoardLostOverlay(w, i) ==
  IF ~B(w, i).isMinified THEN w
  ELSE SetB(w, i, [B(w, i) EXCEPT !.lostOverlay = TRUE])

\* handleBoardGameOver leaving the autonomous flag set
handleBoardGameOver_keepsAI(w, i) ==
  LET b == B(w, i)
      b1 == [b EXCEPT !.isGameOver = TRUE, !.currentPiece = None,
                      !.aiTargetPosition = None, !.aiMoving = FALSE]
      w1 == SetB(w, i, b1)
  IN  IF b.index = w.activeBoardIndex
      THEN [w1 EXCEPT !.isGameOver = TRUE]
      ELSE IF hasAutoReset THEN autoResetBoard(w1, i)
           ELSE showBoardLostOverlay(w1, i)

\* handleBoardGameOver leaving the piece that collided on the board
handleBoardGameOver_keepsPiece(w, i) ==
  LET b == B(w, i)
      b1 == [b EXCEPT !.isGameOver = TRUE]
      b2 == IF b.aiEnabled
            THEN [b1 EXCEPT !.aiEnabled = FALSE, !.aiTargetPosition = None,
                            !.aiMoving = FALSE]
            ELSE b1
      w1 == SetB(w, i, b2)
  IN  IF b.index = w.activeBoardIndex
      THEN [w1 EXCEPT !.isGameOver = TRUE]
      ELSE IF hasAutoReset THEN autoResetBoard(w1, i)
           ELSE showBoardLostOverlay(w1, i)

\* handleBoardGameOver resetting a lost board without the upgrade
handleBoardGameOver_alwaysResets(w, i) ==
  LET b == B(w, i)
      b1 == [b EXCEPT !.isGameOver = TRUE, !.currentPiece = None]
      b2 == IF b.aiEnabled
            THEN [b1 EXCEPT !.aiEnabled = FALSE, !.aiTargetPosition = None,
                            !.aiMoving = FALSE]
            ELSE b1
      w1 == SetB(w, i, b2)
  IN  IF b.index = w.activeBoardIndex
      THEN [w1 EXCEPT !.isGameOver = TRUE]
      ELSE autoResetBoard(w1, i)

\* handleBoardGameOver ending the game whichever board is lost
handleBoardGameOver_anyBoardEndsGame(w, i) ==
  LET b == B(w, i)
      b1 == [b EXCEPT !.isGameOver = TRUE, !.currentPiece = None]
      b2 == IF b.aiEnabled
            THEN [b1 EXCEPT !.aiEnabled = FALSE, !.aiTargetPosition = None,
                            !.aiMoving = FALSE]
            ELSE b1
      w1 == NoteIf(IsSome(b.aiTargetPosition), SetB(w, i, b2), "cancelled", i)
  IN  IF b.index = w.activeBoardIndex
      THEN [w1 EXCEPT !.isGameOver = TRUE]
      ELSE IF hasAutoReset THEN [autoResetBoard(w1, i) EXCEPT !.isGameOver = TRUE]
           ELSE [showBoardLostOverlay(w1, i) EXCEPT !.isGameOver = TRUE]

handleBoardGameOver(w, i) ==
  LET b == B(w, i)
      b1 == [b EXCEPT !.isGameOver = TRUE, !.currentPiece = None]
      b2 == IF b.aiEnabled
            THEN [b1 EXCEPT !.aiEnabled = FALSE, !.aiTargetPosition = None,
                            !.aiMoving = FALSE]
            ELSE b1
      w1 == NoteIf(IsSome(b.aiTargetPosition), SetB(w, i, b2), "cancelled", i)
  IN  IF b.index = w.activeBoardIndex
      THEN [w1 EXCEPT !.isGameOver = TRUE]
      ELSE IF hasAutoReset THEN autoResetBoard(w1, i)
           ELSE showBoardLostOverlay(w1, i)

\* spawnNewPiece drawing one queued piece for all the boards
spawnNewPiece_sharedQueue(w, i) ==
  LET b == B(w, i)
      d1 == IF b.nextPiece # NULL THEN [w |-> w, type |-> b.nextPiece]
            ELSE getRandomPieceType(w)
      d2 == getRandomPieceType(d1.w)
      b1 == [b EXCEPT !.nextPiece = d2.type,
                      !.currentPiece = Some(createPiece(d1.type)),
                      !.forced = None]
      w0 == NoteIf(IsSome(b.forced), d2.w, "forcedSpawn", i)
      w1 == [w0 EXCEPT !.boards = [j \in DOMAIN @ |->
                                     IF j = i + 1 THEN b1
                                     ELSE [@[j] EXCEPT !.nextPiece = d2.type]]]
  IN  IF checkCollision(b1)
      THEN handleBoardGameOver(Note(w1, "spawnCollided", i), i)
      ELSE SetB(w1, i, [b1 EXCEPT !.aiTargetPosition = None, !.aiMoving = FALSE])

\* spawnNewPiece drawing the new piece at random whatever is queued
spawnNewPiece_ignoresQueue(w, i) ==
  LET b == B(w, i)
      d1 == getRandomPieceType(w)
      d2 == getRandomPieceType(d1.w)
      b1 == [b EXCEPT !.nextPiece = d2.type,
                      !.currentPiece = Some(createPiece(d1.type)),
                      !.forced = None]
      w1 == NoteIf(IsSome(b.forced), SetB(d2.w, i, b1), "forcedSpawn", i)
  IN  IF checkCollision(b1)
      THEN handleBoardGameOver(Note(w1, "spawnCollided", i), i)
      ELSE SetB(w1, i, [b1 EXCEPT !.aiTargetPosition = None, !.aiMoving = FALSE])

spawnNewPiece(w, i) ==
  LET b == B(w, i)
      d1 == IF b.nextPiece # NULL THEN [w |-> w, type |-> b.nextPiece]
            ELSE getRandomPieceType(w)
      d2 == getRandomPieceType(d1.w)
      b1 == [b EXCEPT !.nextPiece = d2.type,
                      !.currentPiece = Some(createPiece(d1.type)),
                      !.forced = None]
      w1 == NoteIf(IsSome(b.forced), SetB(d2.w, i, b1), "forcedSpawn", i)
  IN  IF checkCollision(b1)
      THEN handleBoardGameOver(Note(w1, "spawnCollided", i), i)
      ELSE SetB(w1, i, [b1 EXCEPT !.aiTargetPosition = None, !.aiMoving = FALSE])

autoResetBoard(w, i) ==
  spawnNewPiece(
    SetB(w, i, [B(w, i) EXCEPT !.grid = createEmptyGrid,
                               !.currentPiece = None,
                               !.nextPiece = NULL,
                               !.forced = None,
                               !.isGameOver = FALSE,
                               !.lastDropTime = w.time,
                               !.aiEnabled = TRUE,
                               !.aiTargetPosition = None,
                               !.aiMoving = FALSE]), i)

\* ------------------------------------------------------------------------
\* Piece movement (each returns the world and the boolean result)
\* ------------------------------------------------------------------------
Ret(w, ok) == [w |-> w, ok |-> ok]

WithPiece(w, i, piece) == SetB(w, i, [B(w, i) EXCEPT !.currentPiece = Some(piece)])

\* movePieceDown locking the piece without spawning the next one
movePieceDown_withoutSpawn(w, i) ==
  IF IsNone(B(w, i).currentPiece) THEN Ret(w, FALSE)
  ELSE LET piece == Val(B(w, i).currentPiece)
           w1 == WithPiece(w, i, [piece EXCEPT !.y = @ + 1])
       IN  IF checkCollision(B(w1, i))
           THEN Ret(lockPiece(WithPiece(w, i, piece), i), FALSE)
           ELSE Ret(w1, TRUE)

\* movePieceDown leaving a piece that cannot fall where it is
movePieceDown_neverLocks(w, i) ==
  IF IsNone(B(w, i).currentPiece) THEN Ret(w, FALSE)
  ELSE LET piece == Val(B(w, i).currentPiece)
           w1 == WithPiece(w, i, [piece EXCEPT !.y = @ + 1])
       IN  IF checkCollision(B(w1, i))
           THEN Ret(w, FALSE)
           ELSE Ret(w1, TRUE)

movePieceDown(w, i) ==
  IF IsNone(B(w, i).currentPiece) THEN Ret(w, FALSE)
  ELSE LET piece == Val(B(w, i).currentPiece)
           w1 == WithPiece(w, i, [piece EXCEPT !.y = @ + 1])
       IN  IF checkCollision(B(w1, i))
           THEN Ret(spawnNewPiece(lockPiece(WithPiece(w, i, piece), i), i), FALSE)
           ELSE Ret(w1, TRUE)

\* movePieceHorizontally without the collision test
movePieceHorizontally_unchecked(w, i, direction) ==
  IF IsNone(B(w, i).currentPiece) THEN Ret(w, FALSE)
  ELSE LET piece == Val(B(w, i).currentPiece)
       IN  Ret(WithPiece(w, i, [piece EXCEPT !.x = @ + direction]), TRUE)

movePieceHorizontally(w, i, direction) ==
  IF IsNone(B(w, i).currentPiece) THEN Ret(w, FALSE)
  ELSE LET piece == Val(B(w, i).currentPiece)
           w1 == WithPiece(w, i, [piece EXCEPT !.x = @ + direction])
       IN  IF checkCollision(B(w1, i))
           THEN Ret(WithPiece(w, i, piece), FALSE)
           ELSE Ret(w1, TRUE)

\* the wall kicks in the order tried, then the floor kick
\* the attempts of rotatePiece with the left kicks tried before the right
Kicks_leftFirst ==
  << [dx |-> 0, dy |-> 0], [dx |-> -1, dy |-> 0], [dx |-> 1, dy |-> 0],
     [dx |-> -2, dy |-> 0], [dx |-> 2, dy |-> 0], [dx |-> 0, dy |-> -1] >>

Kicks == << [dx |-> 0, dy |-> 0], [dx |-> 1, dy |-> 0], [dx |-> -1, dy |-> 0],
            [dx |-> 2, dy |-> 0], [dx |-> -2, dy |-> 0], [dx |-> 0, dy |-> -1] >>

\* rotatePiece that does not undo the floor kick when every attempt failed
rotatePiece_keepsFloorKick(w, i) ==
  IF IsNone(B(w, i).currentPiece) THEN Ret(w, FALSE)
  ELSE LET piece == Val(B(w, i).currentPiece)
           rotated == [piece EXCEPT !.shape = rotateShape(piece.shape)]
           At(k) == [rotated EXCEPT !.x = @ + Kicks[k].dx, !.y = @ + Kicks[k].dy]
           free == {k \in 1..Len(Kicks) : ~checkCollision(B(WithPiece(w, i, At(k)), i))}
       IN  IF piece.type = "O" THEN Ret(w, FALSE)
           ELSE IF free = {} THEN Ret(WithPiece(w, i, [piece EXCEPT !.y = @ - 1]), FALSE)
           ELSE Ret(WithPiece(w, i, At(CHOOSE k \in free : \A q \in free : k <= q)), TRUE)

rotatePiece(w, i) ==
  IF IsNone(B(w, i).currentPiece) THEN Ret(w, FALSE)
  ELSE LET piece == Val(B(w, i).currentPiece)
           rotated == [piece EXCEPT !.shape = rotateShape(piece.shape)]
           At(k) == [rotated EXCEPT !.x = @ + Kicks[k].dx, !.y = @ + Kicks[k].dy]
           free == {k \in 1..Len(Kicks) : ~checkCollision(B(WithPiece(w, i, At(k)), i))}
       IN  IF piece.type = "O" THEN Ret(w, FALSE)
           ELSE IF free = {} THEN Ret(WithPiece(w, i, piece), FALSE)
           ELSE Ret(WithPiece(w, i, At(CHOOSE k \in free : \A q \in free : k <= q)), TRUE)

\* hardDrop that steps back two rows after its loop
hardDrop_locksOneRowHigh(w, i) ==
  IF IsNone(B(w, i).currentPiece) THEN w
  ELSE LET b == B(w, i)
           piece == Val(b.currentPiece)
           rest == [piece EXCEPT !.y = DropToRest(piece, b.grid) - 1]
       IN  spawnNewPiece(lockPiece(WithPiece(w, i, rest), i), i)

hardDrop(w, i) ==
  IF IsNone(B(w, i).currentPiece) THEN w
  ELSE LET b == B(w, i)
           piece == Val(b.currentPiece)
           rest == [piece EXCEPT !.y = DropToRest(piece, b.grid)]
       IN  spawnNewPiece(lockPiece(WithPiece(w, i, rest), i), i)


\* ------------------------------------------------------------------------
\* Autonomous executor
\* ------------------------------------------------------------------------
ClearTarget(w, i) ==
  SetB(w, i, [B(w, i) EXCEPT !.aiTargetPosition = None, !.aiMoving = FALSE])

\* (board.currentPiece as any).aiRotations = n, on the piece now current
SetRotations(w, i, n) ==
  IF IsNone(B(w, i).currentPiece) THEN w
  ELSE WithPiece(w, i, [Val(B(w, i).currentPiece) EXCEPT !.aiRotations = n])

\* history of the executor's rotate step: it ran, and whether rotatePiece
\* returned true
NoteTurn(w, i, ok, from) ==
  LET piece == Val(B(w, i).currentPiece)
  IN  Note(SetB(w, i, [B(w, i) EXCEPT !.turns = IF ok THEN @ + 1 ELSE @,
                                      !.turnFailed = @ \/ ~ok,
                                      !.kicked = @ \/ piece.x # from.x \/ piece.y # from.y]),
           "turned", i)

\* the executor step with its history: one more step on this piece and on
\* this target
CountStep(w, i) ==
  LET b == B(w, i)
      piece == [Val(b.currentPiece) EXCEPT !.execSteps = @ + 1]
  IN  Note(SetB(w, i, [b EXCEPT !.currentPiece = Some(piece),
                                !.targetSteps = @ + 1,
                                !.stepAt = Some(w.time)]), "executed", i)

\* executeAIMove whose drop step reads the global hardDropUnlocked flag
executeAIMove_globalFlag(w, i) ==
  LET b == B(w, i)
  IN  IF IsNone(b.currentPiece) \/ IsNone(b.aiTargetPosition) \/ ~b.aiEnabled THEN w
      ELSE
        LET w0 == CountStep(w, i)
            piece == Val(B(w0, i).currentPiece)
            target == Val(b.aiTargetPosition)
        IN  IF piece.aiRotations < target.rotation
            THEN LET r == rotatePiece(w0, i)
                 IN  IF r.ok THEN NoteTurn(SetRotations(r.w, i, piece.aiRotations + 1), i, TRUE, piece)
                     ELSE NoteTurn(SetRotations(r.w, i, target.rotation), i, FALSE, piece)
            ELSE IF piece.x # target.x
            THEN LET direction == IF target.x > piece.x THEN 1 ELSE -1
                     h == movePieceHorizontally(w0, i, direction)
                 IN  IF ~h.ok THEN ClearTarget(movePieceDown(h.w, i).w, i)
                     ELSE h.w
            ELSE LET w1 == Note(w0, "dropped", i)
                 IN  IF hardDropUnlocked
                     THEN ClearTarget(hardDrop(w1, i), i)
                     ELSE ClearTarget(movePieceDown(w1, i).w, i)

\* executeAIMove whose drop step leaves the target in place
executeAIMove_keepsTarget(w, i) ==
  LET b == B(w, i)
  IN  IF IsNone(b.currentPiece) \/ IsNone(b.aiTargetPosition) \/ ~b.aiEnabled THEN w
      ELSE
        LET w0 == CountStep(w, i)
            piece == Val(B(w0, i).currentPiece)
            target == Val(b.aiTargetPosition)
        IN  IF piece.aiRotations < target.rotation
            THEN LET r == rotatePiece(w0, i)
                 IN  IF r.ok THEN NoteTurn(SetRotations(r.w, i, piece.aiRotations + 1), i, TRUE, piece)
                     ELSE NoteTurn(SetRotations(r.w, i, target.rotation), i, FALSE, piece)
            ELSE IF piece.x # target.x
            THEN LET direction == IF target.x > piece.x THEN 1 ELSE -1
                     h == movePieceHorizontally(w0, i, direction)
                 IN  IF ~h.ok THEN ClearTarget(movePieceDown(h.w, i).w, i)
                     ELSE h.w
            ELSE LET w1 == Note(w0, "dropped", i)
                 IN  IF b.aiHardDropUnlocked
                     THEN ClearTarget(hardDrop(w1, i), i)
                     ELSE movePieceDown(w1, i).w

\* executeAIMove without its sideways step
executeAIMove_dropsWhereItIs(w, i) ==
  LET b == B(w, i)
  IN  IF IsNone(b.currentPiece) \/ IsNone(b.aiTargetPosition) \/ ~b.aiEnabled THEN w
      ELSE
        LET w0 == CountStep(w, i)
            piece == Val(B(w0, i).currentPiece)
            target == Val(b.aiTargetPosition)
        IN  IF piece.aiRotations < target.rotation
            THEN LET r == rotatePiece(w0, i)
                 IN  IF r.ok THEN NoteTurn(SetRotations(r.w, i, piece.aiRotations + 1), i, TRUE, piece)
                     ELSE NoteTurn(SetRotations(r.w, i, target.rotation), i, FALSE, piece)
            ELSE IF FALSE
            THEN LET direction == IF target.x > piece.x THEN 1 ELSE -1
                     h == movePieceHorizontally(w0, i, direction)
                 IN  IF ~h.ok THEN ClearTarget(movePieceDown(h.w, i).w, i)
                     ELSE h.w
            ELSE LET w1 == Note(w0, "dropped", i)
                 IN  IF b.aiHardDropUnlocked
                     THEN ClearTarget(hardDrop(w1, i), i)
                     ELSE ClearTarget(movePieceDown(w1, i).w, i)

executeAIMove(w, i) ==
  LET b == B(w, i)
  IN  IF IsNone(b.currentPiece) \/ IsNone(b.aiTargetPosition) \/ ~b.aiEnabled THEN w
      ELSE
        LET w0 == CountStep(w, i)
            piece == Val(B(w0, i).currentPiece)
            target == Val(b.aiTargetPosition)
        IN  IF piece.aiRotations < target.rotation
            THEN LET r == rotatePiece(w0, i)
                 IN  IF r.ok THEN NoteTurn(SetRotations(r.w, i, piece.aiRotations + 1), i, TRUE, piece)
                     ELSE NoteTurn(SetRotations(r.w, i, target.rotation), i, FALSE, piece)
            ELSE IF piece.x # target.x
            THEN LET direction == IF target.x > piece.x THEN 1 ELSE -1
                     h == movePieceHorizontally(w0, i, direction)
                 IN  IF ~h.ok THEN ClearTarget(movePieceDown(h.w, i).w, i)
                     ELSE h.w
            ELSE LET w1 == Note(w0, "dropped", i)
                 IN  IF b.aiHardDropUnlocked
                     THEN ClearTarget(hardDrop(w1, i), i)
                     ELSE ClearTarget(movePieceDown(w1, i).w, i)

SetLastMove(w, i, currentTime) ==
  SetB(w, i, [B(w, i) EXCEPT !.aiLastMoveTime = currentTime])

SetNotMoving(w, i) == SetB(w, i, [B(w, i) EXCEPT !.aiMoving = FALSE])

\* history: calculateBestMove(b) returned result
\* and left the board as `left`
NotePlan(w, b, result, left) ==
  [w EXCEPT !.ev.plans = @ \cup {[board |-> b.index, grid |-> b.grid,
                                  piece |-> Val(b.currentPiece), result |-> result,
                                  before |-> b, left |-> left]}]

\* the cadence test always passing
CadenceElapsed_always(b, currentTime) == TRUE

\* currentTime - aiLastMoveTime > aiSpeed, aiSpeed being num/den
CadenceElapsed(b, currentTime) ==
  (currentTime - b.aiLastMoveTime) * b.aiSpeed.den > b.aiSpeed.num

\* "if (!aiStartTime) aiStartTime = currentTime"
StartClock(w, i, currentTime) ==
  IF Val(B(w, i).currentPiece).aiStartTime = 0
  THEN WithPiece(w, i, [Val(B(w, i).currentPiece) EXCEPT !.aiStartTime = currentTime])
  ELSE w

\* history: the piece is as createPiece left it (the executor's clock apart)
AsSpawned(piece) == [piece EXCEPT !.aiStartTime = 0] = createPiece(piece.type)

\* history: the grid simulateMove returned for the move calculateBestMove chose
Simulated(board, best) ==
  IF IsNone(best) THEN None
  ELSE simulateMove(board.grid, Val(board.currentPiece), Val(best).x, Val(best).rotation)

\* "board.aiTargetPosition = calculateBestMove(board); board.aiMoving = true"
StoreOn(w, i, best, left) ==
  NotePlan(Note(SetB(w, i, [left EXCEPT !.aiTargetPosition = best,
                                        !.aiMoving = TRUE,
                                        !.targetSteps = 0,
                                        !.planTurns = IF IsSome(best) THEN Val(best).rotation
                                                      ELSE 0,
                                        !.turns = 0,
                                        !.turnFailed = FALSE,
                                        !.kicked = FALSE,
                                        !.planFresh = AsSpawned(Val(left.currentPiece)),
                                        !.planGrid = Simulated(left, best)]),
                "planned", i),
           B(w, i), best, left)

StorePlan(w, i, best) == StoreOn(w, i, best, BoardAfterPlanning(B(w, i)))

\* the cadence branch calling the executor twice
ExecuteAtCadence_twice(w, i, currentTime) ==
  IF CadenceElapsed(B(w, i), currentTime)
  THEN SetLastMove(executeAIMove(executeAIMove(w, i), i), i, currentTime)
  ELSE w

\* "if (currentTime - board.aiLastMoveTime > board.aiSpeed) { ... }"
ExecuteAtCadence(w, i, currentTime) ==
  IF CadenceElapsed(B(w, i), currentTime)
  THEN SetLastMove(executeAIMove(w, i), i, currentTime)
  ELSE w

\* after the target was calculated: the null branch, else the cadence check
AfterPlanning(w, i, currentTime) ==
  IF IsNone(B(w, i).aiTargetPosition)
  THEN SetNotMoving(movePieceDown(w, i).w, i)
  ELSE ExecuteAtCadence(w, i, currentTime)

\* updateAI after the safety timeout was found not to apply
PlanAndExecute(w, i, currentTime) ==
  IF IsNone(B(w, i).aiTargetPosition) /\ ~B(w, i).aiMoving
  THEN AfterPlanning(StorePlan(w, i, calculateBestMove(B(w, i))), i, currentTime)
  ELSE ExecuteAtCadence(w, i, currentTime)

\* updateAI whose safety timeout waits for the cadence
UpdateStarted_atCadence(w, i, currentTime) ==
  IF /\ currentTime - Val(B(w, i).currentPiece).aiStartTime > SAFETY_TIMEOUT
     /\ CadenceElapsed(B(w, i), currentTime)
  THEN ClearTarget(movePieceDown(w, i).w, i)
  ELSE PlanAndExecute(w, i, currentTime)

\* updateAI after aiStartTime was set
UpdateStarted(w, i, currentTime) ==
  IF currentTime - Val(B(w, i).currentPiece).aiStartTime > SAFETY_TIMEOUT
  THEN ClearTarget(movePieceDown(w, i).w, i)
  ELSE PlanAndExecute(w, i, currentTime)

updateAI(w, i, currentTime) ==
  IF ~B(w, i).aiEnabled \/ IsNone(B(w, i).currentPiece) THEN w
  ELSE UpdateStarted(StartClock(w, i, currentTime), i, currentTime)

\* ------------------------------------------------------------------------
\* The game loop: one pass over the boards, index ascending
\* ------------------------------------------------------------------------
\* the loop body applying gravity to the active board whoever controls it
StepBoard_gravityOnAI(w, i, currentTime) ==
  LET b == B(w, i)
      w0 == IF b.aiEnabled THEN updateAI(w, i, currentTime) ELSE w
  IN  IF b.isGameOver THEN w
      ELSE IF b.index = w.activeBoardIndex
           THEN IF currentTime - b.lastDropTime > DROP_SPEED
                THEN LET w1 == movePieceDown(w0, i).w
                     IN  SetB(w1, i, [B(w1, i) EXCEPT !.lastDropTime = currentTime,
                                                      !.fellAt = Some(currentTime)])
                ELSE w0
           ELSE w0

StepBoard(w, i, currentTime) ==
  LET b == B(w, i)
  IN  IF b.isGameOver THEN w
      ELSE IF b.aiEnabled THEN updateAI(w, i, currentTime)
      ELSE IF b.index = w.activeBoardIndex
           THEN IF currentTime - b.lastDropTime > DROP_SPEED
                THEN LET w1 == movePieceDown(w, i).w
                     IN  SetB(w1, i, [B(w1, i) EXCEPT !.lastDropTime = currentTime,
                                                      !.fellAt = Some(currentTime)])
                ELSE w
           ELSE w

RECURSIVE LoopBoards(_, _, _)
LoopBoards(w, i, currentTime) ==
  IF i >= Len(w.boards) THEN w
  ELSE LoopBoards(StepBoard(w, i, currentTime), i + 1, currentTime)

gameLoop(w, currentTime) ==
  IF ~isPaused /\ ~isGameOver THEN LoopBoards(w, 0, currentTime) ELSE w


\* ------------------------------------------------------------------------
\* Operations of the external collaborators, as functions of the world
\* ------------------------------------------------------------------------
Pay(w, cost) == [w EXCEPT !.globalPoints = @ - cost]

hireAI(w, i) ==
  LET cost == getBoardCost(BASE_COSTS.HIRE_AI, i)
  IN  IF w.globalPoints < cost THEN w
      ELSE SetB(Pay(w, cost), i, [B(w, i) EXCEPT !.aiHired = TRUE, !.aiEnabled = TRUE])

purchaseAIHardDrop(w, i) ==
  LET cost == getBoardCost(BASE_COSTS.AI_HARD_DROP, i)
  IN  IF ~B(w, i).aiHired \/ w.globalPoints < cost THEN w
      ELSE SetB(Pay(w, cost), i, [B(w, i) EXCEPT !.aiHardDropUnlocked = TRUE])

purchaseAISpeedUpgrade(w, i) ==
  LET cost == getBoardCost(BASE_COSTS.AI_SPEED, i)
      b == B(w, i)
  IN  IF ~b.aiHired \/ b.aiSpeedLevel >= MAX_AI_SPEED_UPGRADES \/ w.globalPoints < cost
      THEN w
      ELSE SetB(Pay(w, cost), i,
             [b EXCEPT !.aiSpeedLevel = @ + 1,
                       !.aiSpeed = [num |-> BASE_AI_SPEED * Pow(2, b.aiSpeedLevel + 1),
                                    den |-> Pow(3, b.aiSpeedLevel + 1)]])

purchaseForceNextPiece(w, i) ==
  LET cost == getBoardCost(BASE_COSTS.FORCE_NEXT_PIECE_UNLOCK, i)
  IN  IF B(w, i).forceNextPieceUnlocked \/ w.globalPoints < cost THEN w
      ELSE SetB(Pay(w, cost), i, [B(w, i) EXCEPT !.forceNextPieceUnlocked = TRUE])

\* forceNextPiece putting the chosen piece into play at once
forceNextPiece_replacesPiece(w, i, pieceType) ==
  LET cost == getBoardCost(BASE_COSTS.FORCE_NEXT_PIECE_USE, i)
      b == B(w, i)
  IN  IF ~b.forceNextPieceUnlocked \/ b.nextPiece = pieceType \/ w.globalPoints < cost
      THEN w
      ELSE SetB(Pay(w, cost), i, [b EXCEPT !.nextPiece = pieceType,
                                           !.forced = Some(pieceType),
                                           !.currentPiece = Some(createPiece(pieceType))])

forceNextPiece(w, i, pieceType) ==
  LET cost == getBoardCost(BASE_COSTS.FORCE_NEXT_PIECE_USE, i)
      b == B(w, i)
  IN  IF ~b.forceNextPieceUnlocked \/ b.nextPiece = pieceType \/ w.globalPoints < cost
      THEN w
      ELSE SetB(Pay(w, cost), i, [b EXCEPT !.nextPiece = pieceType,
                                           !.forced = Some(pieceType)])

\* activateTakeControl leaving the pending target in place
activateTakeControl_keepsTarget(w, i) ==
  LET cost == getBoardCost(BASE_COSTS.TAKE_CONTROL, i)
      b == B(w, i)
  IN  IF b.index # w.activeBoardIndex \/ ~b.aiEnabled \/ w.globalPoints < cost THEN w
      ELSE NoteIf(IsSome(b.aiTargetPosition),
             SetB(Pay(w, cost), i,
               [b EXCEPT !.aiEnabled = FALSE,
                         !.playerControlPiecesRemaining = TAKE_CONTROL_PIECES]),
             "cancelled", i)

activateTakeControl(w, i) ==
  LET cost == getBoardCost(BASE_COSTS.TAKE_CONTROL, i)
      b == B(w, i)
  IN  IF b.index # w.activeBoardIndex \/ ~b.aiEnabled \/ w.globalPoints < cost THEN w
      ELSE NoteIf(IsSome(b.aiTargetPosition),
             SetB(Pay(w, cost), i,
               [b EXCEPT !.aiEnabled = FALSE,
                         !.playerControlPiecesRemaining = TAKE_CONTROL_PIECES,
                         !.aiTargetPosition = None,
                         !.aiMoving = FALSE]),
             "cancelled", i)

\* minifyBoard leaving the control mode of the board as it is
minifyBoard_leavesMode(w, i) ==
  SetB(w, i, [B(w, i) EXCEPT !.isMinified = TRUE])

minifyBoard(w, i) ==
  LET b == B(w, i)
  IN  SetB(w, i, [b EXCEPT !.isMinified = TRUE,
                           !.aiEnabled = IF ~b.aiEnabled /\ b.aiHired THEN TRUE ELSE @])

unlockNextBoard(w) ==
  LET cost == getNextBoardUnlockCost(Len(w.boards))
      newBoardIndex == Len(w.boards)
      w1 == minifyBoard(Pay(w, cost), w.activeBoardIndex)
      newBoard == [createBoard(newBoardIndex) EXCEPT !.lastDropTime = w.time]
      w2 == [w1 EXCEPT !.boards = Append(@, newBoard),
                       !.activeBoardIndex = newBoardIndex]
  IN  IF ~canUnlockNextBoard(w.boards) \/ w.globalPoints < cost THEN w
      ELSE spawnNewPiece(w2, newBoardIndex)

\* resetBoard putting a newly created board in the place of the lost one
resetBoard_fromScratch(w, i) ==
  LET resetCost == getResetCost(i)
  IN  IF w.globalPoints < resetCost THEN w
      ELSE spawnNewPiece(
             SetB(Pay(w, resetCost), i,
                  [createBoard(i) EXCEPT !.lastDropTime = w.time,
                                         !.isMinified = B(w, i).isMinified,
                                         !.aiEnabled = TRUE]), i)

resetBoard(w, i) ==
  LET resetCost == getResetCost(i)
  IN  IF w.globalPoints < resetCost THEN w
      ELSE spawnNewPiece(
             SetB(Pay(w, resetCost), i,
                  [B(w, i) EXCEPT !.lostOverlay = FALSE,
                                  !.grid = createEmptyGrid,
                                  !.currentPiece = None,
                                  !.nextPiece = NULL,
                                  !.forced = None,
                                  !.isGameOver = FALSE,
                                  !.lastDropTime = w.time,
                                  !.aiEnabled = TRUE,
                                  !.aiTargetPosition = None,
                                  !.aiMoving = FALSE]), i)

\* resetGame and resetGameSkipWelcome: the part that touches the core state
resetGame(w) ==
  LET w1 == [w EXCEPT !.isGameOver = FALSE, !.globalPoints = 0,
                      !.globalLinesCleared = 0,
                      !.boards = <<createBoard(0)>>, !.activeBoardIndex = 0]
      w2 == spawnNewPiece(w1, 0)
  IN  SetB(w2, 0, [B(w2, 0) EXCEPT !.lastDropTime = w.time])

\* the keydown handler without the test of activeBoard.aiEnabled
keydown_ignoresMode(w, key) ==
  LET i == w.activeBoardIndex
      activeBoard == B(w, i)
  IN  IF activeBoard.isGameOver THEN w
      ELSE CASE key = "ArrowLeft" -> movePieceHorizontally(w, i, -1).w
             [] key = "ArrowRight" -> movePieceHorizontally(w, i, 1).w
             [] key = "ArrowDown" ->
                  LET w1 == movePieceDown(w, i).w
                  IN  SetB(w1, i, [B(w1, i) EXCEPT !.lastDropTime = w.time])
             [] key = "ArrowUp" -> rotatePiece(w, i).w
             [] key = " " -> IF hardDropUnlocked THEN hardDrop(w, i) ELSE w

\* the keydown handler, after its isPaused / isGameOver early returns
keydown(w, key) ==
  LET i == w.activeBoardIndex
      activeBoard == B(w, i)
  IN  IF activeBoard.isGameOver \/ activeBoard.aiEnabled THEN w
      ELSE CASE key = "ArrowLeft" -> movePieceHorizontally(w, i, -1).w
             [] key = "ArrowRight" -> movePieceHorizontally(w, i, 1).w
             [] key = "ArrowDown" ->
                  LET w1 == movePieceDown(w, i).w
                  IN  SetB(w1, i, [B(w1, i) EXCEPT !.lastDropTime = w.time])
             [] key = "ArrowUp" -> rotatePiece(w, i).w
             [] key = " " -> IF hardDropUnlocked THEN hardDrop(w, i) ELSE w

Keys == {"ArrowLeft", "ArrowRight", "ArrowDown", "ArrowUp", " "}


\* ------------------------------------------------------------------------
\* Actions
\* ------------------------------------------------------------------------
Commit(w, t, op) ==
  /\ boards' = w.boards
  /\ activeBoardIndex' = w.activeBoardIndex
  /\ globalPoints' = w.globalPoints
  /\ globalLinesCleared' = w.globalLinesCleared
  /\ isGameOver' = w.isGameOver
  /\ now' = t
  /\ last' = [op |-> op, ev |-> w.ev]

\* F(rnd) is the operation run with the outcomes rnd of Math.random; the
\* number of draws an operation makes does not depend on their outcomes
Run(F(_), t, op) ==
  \E w0 \in {F(<<>>)} :
    IF w0.ri = 0 THEN Commit(w0, t, op)
    ELSE \E rnd \in [1..w0.ri -> Types] : \E w \in {F(rnd)} : Commit(w, t, op)

Op(name, board, arg) == [name |-> name, board |-> board, arg |-> arg]

\* one frame of requestAnimationFrame(gameLoop)
Tick ==
  \E dt \in budget.dts :
    /\ budget.frames > 0
    /\ budget' = [budget EXCEPT !.frames = @ - 1]
    /\ LET F(rnd) == gameLoop(World(rnd, now + dt), now + dt)
       IN  Run(F, now + dt, Op("tick", -1, ""))
    /\ UNCHANGED <<hardDropUnlocked, isPaused, hasDoublePoints, hasHalfCost,
                   hasAutoReset>>

\* a keydown event with one of the five gameplay keys
Press(key) ==
  /\ budget.keys > 0
  /\ budget' = [budget EXCEPT !.keys = @ - 1]
  /\ LET F(rnd) == IF isPaused \/ isGameOver THEN World(rnd, now)
                   ELSE keydown(World(rnd, now), key)
     IN  Run(F, now, Op("keydown", activeBoardIndex, key))
  /\ UNCHANGED <<hardDropUnlocked, isPaused, hasDoublePoints, hasHalfCost,
                 hasAutoReset>>

KeyDown == \E key \in Keys : Press(key)

\* The upgrade buttons exist for the active board only (minifyBoard removes
\* a board's container) and are enabled only while the purchase is possible.
Click ==
  /\ budget.clicks > 0
  /\ budget' = [budget EXCEPT !.clicks = @ - 1]

PurchaseHardDrop ==
  /\ Click
  /\ ~hardDropUnlocked
  /\ globalPoints >= BASE_COSTS.HARD_DROP
  /\ hardDropUnlocked' = TRUE
  /\ globalPoints' = globalPoints - BASE_COSTS.HARD_DROP
  /\ last' = [op |-> Op("purchaseHardDrop", -1, ""), ev |-> NoEvents]
  /\ UNCHANGED <<boards, activeBoardIndex, globalLinesCleared, isGameOver, isPaused,
                 hasDoublePoints, hasHalfCost, hasAutoReset, now>>

Collab(w, op) ==
  /\ Click
  /\ w.boards # boards
  /\ \E w1 \in {w} : Commit(w1, now, op)
  /\ UNCHANGED <<hardDropUnlocked, isPaused, hasDoublePoints, hasHalfCost,
                 hasAutoReset>>

HireAI ==
  LET i == activeBoardIndex
  IN  /\ ~boards[i + 1].aiHired
      /\ Collab(hireAI(World(<<>>, now), i), Op("hireAI", i, ""))

PurchaseAIHardDrop ==
  LET i == activeBoardIndex
  IN  /\ ~boards[i + 1].aiHardDropUnlocked
      /\ Collab(purchaseAIHardDrop(World(<<>>, now), i), Op("purchaseAIHardDrop", i, ""))

PurchaseAISpeedUpgrade ==
  /\ budget.clicks > 0
  /\ LET i == activeBoardIndex
     IN  Collab(purchaseAISpeedUpgrade(World(<<>>, now), i), Op("purchaseAISpeedUpgrade", i, ""))

PurchaseForceNextPiece ==
  /\ budget.clicks > 0
  /\ LET i == activeBoardIndex
     IN  Collab(purchaseForceNextPiece(World(<<>>, now), i), Op("purchaseForceNextPiece", i, ""))

ForceNextPiece ==
  \E pieceType \in Types :
    /\ budget.clicks > 0
    /\ LET i == activeBoardIndex
       IN  Collab(forceNextPiece(World(<<>>, now), i, pieceType), Op("forceNextPiece", i, pieceType))

ActivateTakeControl ==
  /\ budget.clicks > 0
  /\ LET i == activeBoardIndex
     IN  Collab(activateTakeControl(World(<<>>, now), i), Op("activateTakeControl", i, ""))

UnlockNextBoard ==
  /\ Click
  /\ Len(boards) < MaxModelBoards
  /\ canUnlockNextBoard(boards)
  /\ globalPoints >= getNextBoardUnlockCost(Len(boards))
  /\ LET F(rnd) == unlockNextBoard(World(rnd, now))
     IN  Run(F, now, Op("unlockNextBoard", Len(boards), ""))
  /\ UNCHANGED <<hardDropUnlocked, isPaused, hasDoublePoints, hasHalfCost,
                 hasAutoReset>>

\* the reset button of a lost board's overlay
ResetBoard ==
  \E i \in 0..(Len(boards) - 1) :
    /\ Click
    /\ boards[i + 1].lostOverlay
    /\ globalPoints >= getResetCost(i)
    /\ LET F(rnd) == resetBoard(World(rnd, now), i)
       IN  Run(F, now, Op("resetBoard", i, ""))
    /\ UNCHANGED <<hardDropUnlocked, isPaused, hasDoublePoints, hasHalfCost,
                   hasAutoReset>>

\* the restart button of the game-over screen
ResetGame ==
  /\ isGameOver
  /\ LET F(rnd) == resetGame(World(rnd, now))
     IN  Run(F, now, Op("resetGame", -1, ""))
  /\ hardDropUnlocked' = FALSE
  /\ isPaused' = FALSE
  /\ UNCHANGED <<hasDoublePoints, hasHalfCost, hasAutoReset, budget>>

\* showDialogue / closeCurrentDialogue
ShowDialogue ==
  /\ ~isPaused
  /\ budget.dialogues > 0
  /\ budget' = [budget EXCEPT !.dialogues = @ - 1]
  /\ isPaused' = TRUE
  /\ last' = [op |-> Op("showDialogue", -1, ""), ev |-> NoEvents]
  /\ UNCHANGED <<boards, activeBoardIndex, globalPoints, globalLinesCleared,
                 hardDropUnlocked, isGameOver, hasDoublePoints, hasHalfCost,
                 hasAutoReset, now>>

CloseCurrentDialogue ==
  /\ isPaused
  /\ isPaused' = FALSE
  /\ last' = [op |-> Op("closeCurrentDialogue", -1, ""), ev |-> NoEvents]
  /\ UNCHANGED <<boards, activeBoardIndex, globalPoints, globalLinesCleared,
                 hardDropUnlocked, isGameOver, hasDoublePoints, hasHalfCost,
                 hasAutoReset, now, budget>>

\* ------------------------------------------------------------------------
\* Initial states: the state after construction, and states a game reaches
\* ------------------------------------------------------------------------
OColor == PIECE_COLORS["O"]
IColor == PIECE_COLORS["I"]

\* A stack built without completing a row: forty pieces dropped straight
\* down.  O pieces on columns 0-1 up to row 4 and on columns 2-3, 4-5, 6-7 up
\* to row 2, four upright I pieces in column 8 up to row 4, and an O piece on
\* columns 8-9 resting on them, which roofs the empty column 9.
SealedGrid ==
  [r \in 1..GRID_HEIGHT |->
    [c \in 1..GRID_WIDTH |->
      LET row == r - 1
          col == c - 1
      IN  IF row >= 4
          THEN (IF col = 9 THEN NULL ELSE IF col = 8 THEN IColor ELSE OColor)
          ELSE IF row >= 2
          THEN (IF col <= 1 THEN NULL ELSE OColor)
          ELSE NULL]]

Spawned(board, t, n) ==
  [board EXCEPT !.currentPiece = Some(createPiece(t)), !.nextPiece = n]

MaxedOut(board) ==
  [board EXCEPT !.aiHired = TRUE, !.aiEnabled = TRUE, !.aiHardDropUnlocked = TRUE,
                !.aiSpeedLevel = MAX_AI_SPEED_UPGRADES,
                !.aiSpeed = [num |-> BASE_AI_SPEED * Pow(2, MAX_AI_SPEED_UPGRADES),
                             den |-> Pow(3, MAX_AI_SPEED_UPGRADES)],
                !.forceNextPieceUnlocked = TRUE]

\* The same stack with two T pieces laid flat on it at the left and right
\* walls (moved sideways in the two free rows): rows 0-1 stay free only above
\* columns 3-6, where pieces spawn.
TightGrid ==
  LET left == [createPiece("T") EXCEPT !.x = 0]
      right == [createPiece("T") EXCEPT !.x = GRID_WIDTH - 3]
  IN  StampPiece(StampPiece(SealedGrid, left), right)

Budget(frames, dts, keysLeft, clicks, dialogues) ==
  [frames |-> frames, dts |-> dts, keys |-> keysLeft, clicks |-> clicks,
   dialogues |-> dialogues]

FreshBoard(i, t, n) == Spawned(createBoard(i), t, n)

OnGrid(g, i, t, n) == Spawned([createBoard(i) EXCEPT !.grid = g], t, n)

Scenario(bs, points, lines, hdUnlocked, autoReset, bud) ==
  [boards |-> bs, active |-> Len(bs) - 1, points |-> points, lines |-> lines,
   hardDrop |-> hdUnlocked, autoReset |-> autoReset, budget |-> bud]

\* the state after construction: main.ts 4072-4114
FreshGames ==
  { Scenario(<<FreshBoard(0, t, n)>>, 0, 0, FALSE, FALSE,
             Budget(FreshFrames, {SlowFrame}, FreshKeys, 0, FreshDialogues)) :
      t \in Types, n \in Types }

\* 2 lines cleared with O pieces, hard drop bought, then the stack built
TallGames ==
  { Scenario(<<OnGrid(SealedGrid, 0, t, n)>>, 1, 2, TRUE, FALSE,
             Budget(TallFrames, {SlowFrame}, TallKeys, 0, 0)) :
      t \in Types, n \in Types }

\* 16 lines cleared with O pieces, the AI of board 0 hired, 14 points left
HiredGames ==
  { Scenario(<<[FreshBoard(0, t, n) EXCEPT !.aiHired = TRUE, !.aiEnabled = TRUE]>>,
             14, 16, FALSE, FALSE,
             Budget(HiredFrames, {SlowFrame}, HiredKeys, HiredClicks, 0)) :
      t \in Types, n \in Types }

\* 46 lines cleared with O pieces, board 0 fully upgraded, 15 points left
MaxedGames ==
  { Scenario(<<MaxedOut(FreshBoard(0, t, n))>>, 15, 46, FALSE, FALSE,
             Budget(MaxedFrames, {SlowFrame}, MaxedKeys, MaxedClicks, 0)) :
      t \in Types, n \in Types }

\* 52 lines cleared, the stack built on board 0, board 0 fully upgraded and
\* board 1 unlocked; with or without the auto-reset upgrade, which is bought
\* in the prestige shop and kept across the reset that follows a prestige
TwoBoardGames ==
  { Scenario(<<[MaxedOut(OnGrid(TightGrid, 0, t, n)) EXCEPT !.isMinified = TRUE],
               FreshBoard(1, t, n)>>, 6, 52, FALSE, ar,
             Budget(TwoFrames, {SlowFrame}, TwoKeys, TwoClicks, 0)) :
      t \in Types, n \in Types, ar \in BOOLEAN }

Start(sc) ==
  /\ boards = sc.boards
  /\ activeBoardIndex = sc.active
  /\ globalPoints = sc.points
  /\ globalLinesCleared = sc.lines
  /\ hardDropUnlocked = sc.hardDrop
  /\ isGameOver = FALSE
  /\ isPaused = FALSE
  /\ hasDoublePoints = FALSE
  /\ hasHalfCost = FALSE
  /\ hasAutoReset = sc.autoReset
  /\ now = 0
  /\ budget = sc.budget
  /\ last = [op |-> Op("init", -1, ""), ev |-> NoEvents]

\* One board whose AI was hired, with and without the AI hard drop, on an
\* empty grid and on the stack; frames arrive just above the base cadence, so
\* every frame runs one executor step.
ExecGames ==
  { Scenario(<<[OnGrid(g, 0, t, n) EXCEPT !.aiHired = TRUE, !.aiEnabled = TRUE,
                                          !.aiHardDropUnlocked = hd]>>,
             0, 2, FALSE, FALSE,
             Budget(ExecFrames, {FastFrame}, 0, 0, 0)) :
      g \in {createEmptyGrid, SealedGrid}, t \in Types, n \in Types, hd \in BOOLEAN }

\* ------------------------------------------------------------------------
\* Boards handed to the planner (inputs of calculateBestMove; the grids the
\* planner's scenarios name need not arise in a game)
\* ------------------------------------------------------------------------
AllTypes == {PieceTypeOrder[i] : i \in 1..Len(PieceTypeOrder)}

\* the grid with column c filled to height hs[c + 1], without holes
Profile(hs) ==
  [r \in 1..GRID_HEIGHT |->
    [c \in 1..GRID_WIDTH |-> IF r > GRID_HEIGHT - hs[c] THEN OColor ELSE NULL]]

\* the bottom row filled in every column except column c, otherwise empty
BottomGap(c) ==
  [r \in 1..GRID_HEIGHT |->
    [col \in 1..GRID_WIDTH |->
       IF r = GRID_HEIGHT /\ col - 1 # c THEN OColor ELSE NULL]]

\* ten O pieces stacked on columns 0-1, up to the top row
TowerGrid == Profile(<<20, 20, 0, 0, 0, 0, 0, 0, 0, 0>>)

StairsGrid == Profile(<<0, 1, 2, 3, 2, 1, 0, 1, 2, 3>>)

\* row 1 filled except column 0 and row 2 filled except column 9: no piece
\* fits at y = 0 in any rotation at any x
BlockedGrid ==
  [r \in 1..GRID_HEIGHT |->
    [c \in 1..GRID_WIDTH |->
       IF (r - 1 = 1 /\ c - 1 # 0) \/ (r - 1 = 2 /\ c - 1 # GRID_WIDTH - 1)
       THEN OColor ELSE NULL]]

\* the row below the blocked rows, where the piece of a blocked board hangs
BelowBlock == 5

PlanGrids ==
  {BottomGap(c) : c \in 0..(GRID_WIDTH - 1)}
    \cup {createEmptyGrid, SealedGrid, TightGrid, TowerGrid, StairsGrid}

PlanBoard(g, t, y, hd) ==
  LET b == OnGrid(g, 0, t, "I")
  IN  [b EXCEPT !.currentPiece = Some([createPiece(t) EXCEPT !.y = y]),
                !.aiHired = TRUE, !.aiEnabled = TRUE, !.aiHardDropUnlocked = hd]

\* the board after the player turned the piece k times (rotatePiece on an
\* empty grid needs no kick) and the AI was hired
Turned(board, k) ==
  [board EXCEPT !.currentPiece =
     Some([Val(@) EXCEPT !.shape = RotateTimes(Val(board.currentPiece).shape, k)])]

PlanGames ==
  { Scenario(<<PlanBoard(g, t, 0, FALSE)>>, 0, 2, FALSE, FALSE,
             Budget(PlanFrames, {FastFrame}, 0, 0, 0)) :
      g \in PlanGrids, t \in AllTypes }
  \cup
  { Scenario(<<Turned(PlanBoard(createEmptyGrid, t, 0, FALSE), k)>>, 0, 2, FALSE, FALSE,
             Budget(PlanFrames, {FastFrame}, 0, 0, 0)) :
      t \in AllTypes, k \in 1..3 }
  \cup
  { Scenario(<<PlanBoard(BlockedGrid, t, BelowBlock, hd)>>, 0, 2, FALSE, FALSE,
             Budget(PlanFrames, {FastFrame}, 0, 0, 0)) :
      t \in AllTypes, hd \in BOOLEAN }

Games == FreshGames \cup TallGames \cup HiredGames \cup MaxedGames \cup TwoBoardGames

Init == \E sc \in Games : Start(sc)

Next ==
  \/ Tick
  \/ KeyDown
  \/ PurchaseHardDrop
  \/ HireAI
  \/ PurchaseAIHardDrop
  \/ PurchaseAISpeedUpgrade
  \/ PurchaseForceNextPiece
  \/ ForceNextPiece
  \/ ActivateTakeControl
  \/ UnlockNextBoard
  \/ ResetBoard
  \/ ResetGame
  \/ ShowDialogue
  \/ CloseCurrentDialogue

Spec == Init /\ [][Next]_vars

\* the executor alone: frames on an autonomous board
ExecInit == \E sc \in ExecGames : Start(sc)

SpecExec == ExecInit /\ [][Tick]_vars

\* the planner alone: one frame on a board handed to it
PlanInit == \E sc \in PlanGames : Start(sc)

SpecPlan == PlanInit /\ [][Tick]_vars

\* ------------------------------------------------------------------------
\* Locks that clear lines: an upright I piece over a one-column shaft through
\* the four bottom rows, on a board under human control with the hard drop
\* ------------------------------------------------------------------------
\* keydown events in such a run
ClearKeys == 2

\* the row filled in every column except those of `gaps`
RowWithout(gaps) == [c \in 1..GRID_WIDTH |-> IF c - 1 \in gaps THEN NULL ELSE OColor]

\* Rows H-4..H-1 are filled except column c; the rows not in `full` have a
\* second gap, in a column of their own.  Row H-5 holds one cell.
ShaftGrid(c, full) ==
  [r \in 1..GRID_HEIGHT |->
     LET row == r - 1
     IN  IF row >= GRID_HEIGHT - 4
         THEN IF row \in full THEN RowWithout({c})
              ELSE RowWithout({c, (c + 1 + (GRID_HEIGHT - 1 - row)) % GRID_WIDTH})
         ELSE IF row = GRID_HEIGHT - 5
         THEN [col \in 1..GRID_WIDTH |->
                 IF col - 1 = (c + 5) % GRID_WIDTH THEN IColor ELSE NULL]
         ELSE EmptyRow]

\* the I piece turned upright and moved over column c
UprightOver(board, c) ==
  [board EXCEPT !.currentPiece =
     Some([createPiece("I") EXCEPT !.shape = rotateShape(@), !.x = c - 2])]

ShaftColumns == {0, GRID_WIDTH \div 2, GRID_WIDTH - 1}

ClearGames ==
  { Scenario(<<UprightOver(OnGrid(ShaftGrid(c, full), 0, "I", n), c)>>,
             1, 2, TRUE, FALSE, Budget(0, {SlowFrame}, ClearKeys, 0, 0)) :
      c \in ShaftColumns, full \in SUBSET ((GRID_HEIGHT - 4)..(GRID_HEIGHT - 1)),
      n \in Types }

ClearInit == \E sc \in ClearGames : Start(sc)

SpecClear == ClearInit /\ [][KeyDown]_vars

\* ------------------------------------------------------------------------
\* The two hard drops: the executor's drop step and the space key
\* ------------------------------------------------------------------------
DropKeys == 2

\* a fully upgraded board during a take-control window with `left` pieces to
\* go: activateTakeControl has disabled the AI and cleared the target
WindowBoard(g, t, n, left) ==
  [MaxedOut(OnGrid(g, 0, t, n)) EXCEPT !.aiEnabled = FALSE,
                                       !.playerControlPiecesRemaining = left]

\* One board whose AI was hired, with and without the AI hard drop and the
\* human hard drop, run frame by frame; and one fully upgraded board just
\* taken over by the player, with and without the human hard drop.
DropGames ==
  { Scenario(<<[FreshBoard(0, t, n) EXCEPT !.aiHired = TRUE, !.aiEnabled = TRUE,
                                           !.aiHardDropUnlocked = hd]>>,
             IF hd THEN 0 ELSE 10, 13, ghd, FALSE,
             Budget(ExecFrames, {FastFrame}, 0, 0, 0)) :
      t \in Types, n \in Types, hd \in BOOLEAN, ghd \in BOOLEAN }
  \cup
  { Scenario(<<WindowBoard(createEmptyGrid, t, n, TAKE_CONTROL_PIECES)>>,
             10, 46, ghd, FALSE,
             Budget(0, {SlowFrame}, DropKeys, 0, 0)) :
      t \in Types, n \in Types, ghd \in BOOLEAN }

DropInit == \E sc \in DropGames : Start(sc)

SpecDrop == DropInit /\ [][Tick \/ KeyDown]_vars

\* ------------------------------------------------------------------------
\* Take-control windows: their start, their last locks, and the unlocking
\* of the next board during a window
\* ------------------------------------------------------------------------
ControlFrames == 1
ControlKeys == 2
ControlClicks == 2

\* k O pieces side by side on the floor, from the left wall
FloorGrid(k) == Profile([c \in 1..GRID_WIDTH |-> IF c <= 2 * k THEN 2 ELSE 0])

\* the pieces locked in a window that has `left` pieces to go, of which the
\* first 25 were O pieces that cleared ten lines
LockedInWindow(left) == TAKE_CONTROL_PIECES - left - 25

\* A fully upgraded autonomous board with the points for a take-control and
\* for the next board; and the same board late in a window, one or two
\* pieces before its end, on the floor or under the stack that the next
\* lock tops out.
ControlGames ==
  { Scenario(<<MaxedOut(FreshBoard(0, t, n))>>, 20, 66, TRUE, FALSE,
             Budget(ControlFrames, {SlowFrame}, ControlKeys - 1, ControlClicks, 0)) :
      t \in Types, n \in Types }
  \cup
  { Scenario(<<WindowBoard(g, t, n, 1)>>, 15, 71, TRUE, FALSE,
             Budget(0, {SlowFrame}, ControlKeys - 1, ControlClicks - 1, 0)) :
      g \in {FloorGrid(LockedInWindow(1)), SealedGrid}, t \in Types, n \in Types }
  \cup
  { Scenario(<<WindowBoard(FloorGrid(LockedInWindow(2)), t, n, 2)>>, 15, 71, TRUE, FALSE,
             Budget(0, {SlowFrame}, ControlKeys, ControlClicks - 1, 0)) :
      t \in Types, n \in Types }

ControlInit == \E sc \in ControlGames : Start(sc)

ControlNext == Tick \/ KeyDown \/ ActivateTakeControl \/ UnlockNextBoard

SpecControl == ControlInit /\ [][ControlNext]_vars

\* ------------------------------------------------------------------------
\* Pieces that outlive the executor's safety timeout
\* ------------------------------------------------------------------------
AgeFrames == 5

\* a frame after a long gap (two of them stay within the timeout, three
\* exceed it) and a frame that arrives before the base cadence has elapsed
LongFrame == 2400
ShortFrame == 250

\* One board whose AI was hired, with and without the AI hard drop, on an
\* empty grid and on the stack on which a fresh piece rests at once
AgeGames ==
  { Scenario(<<[OnGrid(g, 0, t, n) EXCEPT !.aiHired = TRUE, !.aiEnabled = TRUE,
                                          !.aiHardDropUnlocked = hd]>>,
             IF hd THEN 0 ELSE 10, 12, FALSE, FALSE,
             Budget(AgeFrames, {LongFrame, ShortFrame}, 0, 0, 0)) :
      g \in {createEmptyGrid, SealedGrid}, t \in Types, n \in Types, hd \in BOOLEAN }

AgeInit == \E sc \in AgeGames : Start(sc)

SpecAge == AgeInit /\ [][Tick]_vars

\* ------------------------------------------------------------------------
\* Pieces against the walls, on the floor and in a shaft, under human control
\* ------------------------------------------------------------------------
KickKeys == 2

\* the piece of `board` moved to the left or to the right wall, at the top
\* or down to where it rests
AtWalls(board) ==
  LET piece == Val(board.currentPiece)
      fits == {x \in (0 - 2)..GRID_WIDTH :
                 ~checkCollisionForTest([piece EXCEPT !.x = x], board.grid)}
      xs == {x \in fits : (x - 1) \notin fits \/ (x + 1) \notin fits}
  IN  UNION {{[board EXCEPT !.currentPiece = Some([piece EXCEPT !.x = x, !.y = y])] :
                y \in {0, DropToRest([piece EXCEPT !.x = x], board.grid)}} : x \in xs}

\* the upright I piece at rest in the shaft of column c, four rows deep
InShaft(c, n) ==
  LET board == UprightOver(OnGrid(ShaftGrid(c, (GRID_HEIGHT - 4)..(GRID_HEIGHT - 1)),
                                  0, "I", n), c)
      piece == Val(board.currentPiece)
  IN  [board EXCEPT !.currentPiece =
         Some([piece EXCEPT !.y = DropToRest(piece, board.grid)])]

\* an upright I piece locked on the floor in column c
PillarGrid(c) ==
  LET piece == Val(UprightOver(FreshBoard(0, "I", "I"), c).currentPiece)
  IN  StampPiece(createEmptyGrid,
                 [piece EXCEPT !.y = DropToRest(piece, createEmptyGrid)])

\* the piece of `board` at rest over the pillar of column c
OnPillar(board, c) ==
  LET piece == [Val(board.currentPiece) EXCEPT !.x = c - 1]
  IN  [board EXCEPT !.grid = PillarGrid(c),
                    !.currentPiece =
                      Some([piece EXCEPT !.y = DropToRest(piece, PillarGrid(c))])]

KickBoards ==
  UNION {AtWalls(Turned(FreshBoard(0, t, n), k)) :
           t \in AllTypes, n \in Types, k \in 0..3}
    \cup {InShaft(c, n) : c \in ShaftColumns, n \in Types}
    \cup {OnPillar(Turned(FreshBoard(0, t, n), k), GRID_WIDTH \div 2) :
           t \in AllTypes, n \in Types, k \in 0..3}
    \cup {OnGrid(SealedGrid, 0, t, n) : t \in AllTypes, n \in Types}

KickGames ==
  { Scenario(<<b>>, 0, 0, FALSE, FALSE, Budget(0, {SlowFrame}, KickKeys, 0, 0)) :
      b \in KickBoards }

KickInit == \E sc \in KickGames : Start(sc)

SpecKick == KickInit /\ [][KeyDown]_vars

\* ------------------------------------------------------------------------
\* The game loop alone: the same games run for three frames, without input
\* ------------------------------------------------------------------------
LoopFrames == 3

LoopGames ==
  { [sc EXCEPT !.budget = Budget(LoopFrames, {SlowFrame, ShortFrame}, 0, 0, 0)] :
      sc \in Games }

LoopInit == \E sc \in LoopGames : Start(sc)

SpecLoop == LoopInit /\ [][Tick]_vars

\* ------------------------------------------------------------------------
\* The queue of next pieces: forced entries, spawns and resets
\* ------------------------------------------------------------------------
QueueFrames == 2
QueueKeys == 2
QueueClicks == 2

\* A fully upgraded board in the player's hands on an empty grid, and the
\* two-board game whose board 0 loses at its next spawn.
QueueGames ==
  { Scenario(<<WindowBoard(createEmptyGrid, t, n, TAKE_CONTROL_PIECES)>>,
             10, 46, TRUE, FALSE,
             Budget(0, {SlowFrame}, QueueKeys, QueueClicks, 0)) :
      t \in Types, n \in Types }
  \cup
  { Scenario(<<[MaxedOut(OnGrid(TightGrid, 0, t, n)) EXCEPT !.isMinified = TRUE],
               FreshBoard(1, t, n)>>, 6, 52, FALSE, ar,
             Budget(QueueFrames, {SlowFrame}, 0, QueueClicks, 0)) :
      t \in Types, n \in Types, ar \in BOOLEAN }

QueueInit == \E sc \in QueueGames : Start(sc)

QueueNext == Tick \/ KeyDown \/ ForceNextPiece \/ ResetBoard

SpecQueue == QueueInit /\ [][QueueNext]_vars

\* ------------------------------------------------------------------------
\* A piece planned for twice: the player takes over a fully upgraded board
\* whose executor has begun on a piece, and hands it back by unlocking the
\* next board
\* ------------------------------------------------------------------------
ReplanFrames == 2
ReplanKeys == 1
ReplanClicks == 2

\* the four bottom rows filled except for one column
FullShaft == (GRID_HEIGHT - 4)..(GRID_HEIGHT - 1)

ReplanGames ==
  { Scenario(<<MaxedOut(OnGrid(ShaftGrid(c, FullShaft), 0, t, n))>>, 20, 66, TRUE, FALSE,
             Budget(ReplanFrames, {SlowFrame}, ReplanKeys, ReplanClicks, 0)) :
      c \in ShaftColumns, t \in Types, n \in Types }

ReplanInit == \E sc \in ReplanGames : Start(sc)

SpecReplan == ReplanInit /\ [][ControlNext]_vars

\* ------------------------------------------------------------------------
\* Plans carried out to the end: a fully upgraded board whose best move is
\* the upright I piece in a shaft, at, left of or right of the spawn column
\* ------------------------------------------------------------------------
PlaceFrames == 8

PlaceGames ==
  { Scenario(<<MaxedOut(OnGrid(ShaftGrid(c, FullShaft), 0, t, n))>>, 0, 66, FALSE, FALSE,
             Budget(PlaceFrames, {FastFrame}, 0, 0, 0)) :
      c \in ShaftColumns, t \in Types, n \in Types }
  \cup
  { Scenario(<<MaxedOut(OnGrid(g, 0, t, n))>>, 0, 66, FALSE, FALSE,
             Budget(PlaceFrames, {FastFrame}, 0, 0, 0)) :
      g \in {createEmptyGrid, SealedGrid}, t \in AllTypes, n \in Types }

PlaceInit == \E sc \in PlaceGames : Start(sc)

SpecPlace == PlaceInit /\ [][Tick]_vars

\* ------------------------------------------------------------------------
\* The board collection up to MAX_BOARDS: unlockNextBoard called in any
\* state (the function makes its tests itself, whatever the button shows)
\* ------------------------------------------------------------------------
BoardsKeys == 2
BoardsClicks == 2
\* the points of such a run: enough for every unlock
BoardsPoints == 2000

UnlockPressed ==
  /\ Click
  /\ LET F(rnd) == unlockNextBoard(World(rnd, now))
     IN  Run(F, now, Op("unlockNextBoard", Len(boards), ""))
  /\ UNCHANGED <<hardDropUnlocked, isPaused, hasDoublePoints, hasHalfCost,
                 hasAutoReset>>

\* k boards, all but the last left behind fully upgraded and minified, the
\* last one fully upgraded or as created
BoardRow(k, t, n, maxed) ==
  [j \in 1..k |->
     IF j < k THEN [MaxedOut(FreshBoard(j - 1, t, n)) EXCEPT !.isMinified = TRUE]
     ELSE IF maxed THEN MaxedOut(FreshBoard(j - 1, t, n))
     ELSE FreshBoard(j - 1, t, n)]

BoardsGames ==
  { Scenario(BoardRow(k, t, n, maxed), BoardsPoints, 200, TRUE, FALSE,
             Budget(0, {SlowFrame}, BoardsKeys, BoardsClicks, 0)) :
      k \in {1, MAX_BOARDS - 1, MAX_BOARDS}, t \in Types, n \in Types, maxed \in BOOLEAN }

BoardsInit == \E sc \in BoardsGames : Start(sc)

BoardsNext == UnlockPressed \/ KeyDown

SpecBoards == BoardsInit /\ [][BoardsNext]_vars

\* ------------------------------------------------------------------------
\* Frames that keep coming: requestAnimationFrame(gameLoop) at the end of
\* every gameLoop
\* ------------------------------------------------------------------------
LiveFrames == 28
\* the frames within which a piece comes to rest: those that pass before
\* the piece is older than SAFETY_TIMEOUT, and one per row after that
LockFrames == 26

LiveGames ==
  { Scenario(<<[OnGrid(g, 0, t, n) EXCEPT !.aiHired = TRUE, !.aiEnabled = TRUE,
                                          !.aiHardDropUnlocked = hd]>>,
             IF hd THEN 0 ELSE 10, 12, FALSE, FALSE,
             Budget(LiveFrames, {SlowFrame}, 0, 0, 0)) :
      g \in {createEmptyGrid, SealedGrid}, t \in Types, n \in Types, hd \in BOOLEAN }

LiveInit == \E sc \in LiveGames : Start(sc)

\* the browser delivers the frame that gameLoop has requested: a step that
\* counts a frame down is a Tick
Frame == budget.frames > 0 /\ budget' = [budget EXCEPT !.frames = @ - 1]

SpecLive == LiveInit /\ [][Tick]_vars /\ WF_budget(Frame)

\* ------------------------------------------------------------------------
\* Each of the seven pieces under human control on an empty grid
\* ------------------------------------------------------------------------
\* keydown events in such a run
TurnKeys == 4

TurnGames ==
  { Scenario(<<FreshBoard(0, t, n)>>, 0, 0, FALSE, FALSE,
             Budget(0, {SlowFrame}, TurnKeys, 0, 0)) :
      t \in AllTypes, n \in Types }

TurnInit == \E sc \in TurnGames : Start(sc)

SpecTurn == TurnInit /\ [][KeyDown]_vars

\* ------------------------------------------------------------------------
\* Properties
\* ------------------------------------------------------------------------
BoardIndices == 1..Len(boards)

\* the grid positions <<row, col>> the active piece covers
PieceCells(piece) ==
  {<<piece.y + rc[1], piece.x + rc[2]>> : rc \in ShapeCells(piece.shape)}

InsideAndFree(b, cell) ==
  /\ cell[2] >= 0
  /\ cell[2] < GRID_WIDTH
  /\ cell[1] < GRID_HEIGHT
  /\ (cell[1] >= 0 => b.grid[cell[1] + 1][cell[2] + 1] = NULL)

\* C1: in every reachable state the active piece of every board, if there is
\* one, covers no cell left of column 0, right of column W-1, below row H-1
\* or holding a locked block.
C1_ActivePieceNeverCollides ==
  \A i \in BoardIndices :
    IsSome(boards[i].currentPiece) =>
      \A cell \in PieceCells(Val(boards[i].currentPiece)) :
        InsideAndFree(boards[i], cell)

\* a keydown has just been handled and the piece stands against the left wall
C1_Witness ==
  /\ last.op.name = "keydown"
  /\ \E i \in BoardIndices :
       /\ IsSome(boards[i].currentPiece)
       /\ \E cell \in PieceCells(Val(boards[i].currentPiece)) : cell[2] = 0

InGameOverState(b) ==
  /\ b.isGameOver
  /\ IsNone(b.currentPiece)
  /\ ~b.aiEnabled
  /\ IsNone(b.aiTargetPosition)

\* C2 as stated: a board whose spawn collided during the last operation ends
\* that operation game-over, without a piece, not autonomous, without target.
C2_SpawnCollisionEndsInGameOver ==
  \A i \in last.ev.spawnCollided : InGameOverState(boards[i + 1])

WasAutoReset(b) ==
  /\ ~b.isGameOver
  /\ IsSome(b.currentPiece)
  /\ b.grid = createEmptyGrid
  /\ b.aiEnabled
  /\ IsNone(b.aiTargetPosition)

\* C2 amended: a board whose spawn collided during the last operation ends
\* that operation game-over, without a piece, not autonomous and without
\* target, unless it is not the active board and the auto-reset upgrade is
\* owned: then it ends the operation reset (not game-over, empty grid, a fresh
\* piece, autonomous, without target).
C2_SpawnCollisionEndsInGameOverOrReset ==
  \A i \in last.ev.spawnCollided :
    IF hasAutoReset /\ i # activeBoardIndex
    THEN WasAutoReset(boards[i + 1])
    ELSE InGameOverState(boards[i + 1])

\* the spawn of a non-active board collided and the board was reset at once
C2_Witness ==
  \E i \in last.ev.spawnCollided :
    hasAutoReset /\ i # activeBoardIndex /\ ~boards[i + 1].isGameOver

\* C3: a game-over board has no active piece, and a tick or a keydown leaves
\* the grid, the piece and the queued next piece of a game-over board as
\* they were.
C3_GameOverBoardIsInert ==
  /\ [](\A i \in BoardIndices : boards[i].isGameOver => IsNone(boards[i].currentPiece))
  /\ [][last'.op.name \in {"tick", "keydown"} =>
          \A i \in BoardIndices :
            boards[i].isGameOver =>
              /\ i <= Len(boards')
              /\ boards'[i].grid = boards[i].grid
              /\ boards'[i].currentPiece = boards[i].currentPiece
              /\ boards'[i].nextPiece = boards[i].nextPiece]_vars

\* a keydown was handled while a board lost earlier was still game-over
C3_Witness ==
  /\ last.op.name = "keydown"
  /\ \E i \in BoardIndices :
       boards[i].isGameOver /\ (i - 1) \notin last.ev.spawnCollided

ResetOps == {"resetBoard", "resetGame"}

\* the boards that were game-over before or at some point during the step
WasGameOverIn(i) ==
  boards[i].isGameOver \/ (i - 1) \in last'.ev.spawnCollided

\* C4 as stated: a board that was game-over (before an operation or at some
\* point during it) is not game-over after the operation only when the
\* operation is resetBoard or the whole-game reset.
C4_OnlyExternalResetRevives ==
  [][\A i \in BoardIndices :
       (WasGameOverIn(i) /\ i <= Len(boards') /\ ~boards'[i].isGameOver)
         => last'.op.name \in ResetOps]_vars

\* C4 amended: a board that is game-over when an operation starts is not
\* game-over after it only when the operation is resetBoard or the whole-game
\* reset; a board that goes game-over during an operation is not game-over at
\* its end only when it is not the active board and the auto-reset upgrade is
\* owned (handleBoardGameOver then calls autoResetBoard itself).
C4_OnlyResetRevives ==
  [][\A i \in BoardIndices :
       /\ (boards[i].isGameOver /\ i <= Len(boards') /\ ~boards'[i].isGameOver)
            => last'.op.name \in ResetOps
       /\ ((i - 1) \in last'.ev.spawnCollided /\ ~boards'[i].isGameOver)
            => (hasAutoReset /\ i - 1 # activeBoardIndex)]_vars

\* resetBoard has just returned a lost board to play
C4_Witness ==
  /\ last.op.name = "resetBoard"
  /\ ~boards[last.op.board + 1].isGameOver
  /\ IsSome(boards[last.op.board + 1].currentPiece)

\* C5: a board that is not autonomous has no pending target, and
\* executeAIMove acts only on boards that were autonomous when the operation
\* started.
C5_NoTargetUnderHumanControl ==
  /\ [](\A i \in BoardIndices :
          ~boards[i].aiEnabled => IsNone(boards[i].aiTargetPosition))
  /\ [][\A i \in last'.ev.executed :
          i + 1 <= Len(boards) /\ boards[i + 1].aiEnabled]_vars

\* take-control has just cleared a pending target
C5_Witness ==
  /\ last.op.name = "activateTakeControl"
  /\ last.ev.cancelled # {}
  /\ \E i \in BoardIndices : boards[i].playerControlPiecesRemaining = TAKE_CONTROL_PIECES

\* C6 as stated: a piece on an autonomous board is locked by the time the
\* executor has taken W + 4 steps on it.
C6_LockedWithinWPlus4Steps ==
  \A i \in BoardIndices :
    (boards[i].aiEnabled /\ IsSome(boards[i].currentPiece)) =>
      Val(boards[i].currentPiece).execSteps < GRID_WIDTH + 4

\* C6 amended: the executor takes at most W + 4 steps on one target; its drop
\* step clears the target, and it locks the piece when the AI hard drop is
\* unlocked (without it the piece moves down one row and the planner runs
\* again, so a piece can take more than W + 4 executor steps).
C6_TargetDoneWithinWPlus4Steps ==
  \A i \in BoardIndices :
    /\ boards[i].targetSteps <= GRID_WIDTH + 4
    /\ (i - 1) \in last.ev.dropped =>
         /\ IsNone(boards[i].aiTargetPosition)
         /\ boards[i].aiHardDropUnlocked => (i - 1) \in last.ev.locked

\* the drop step has just locked a piece that took sideways steps first
C6_Witness ==
  \E i \in BoardIndices :
    /\ boards[i].aiHardDropUnlocked
    /\ (i - 1) \in last.ev.dropped
    /\ (i - 1) \in last.ev.locked
    /\ boards[i].targetSteps >= 4

\* ------------------------------------------------------------------------
\* The planner's contract, stated without the planner's code
\* ------------------------------------------------------------------------
\* the piece in pose (x, 0) after `rotation` clockwise turns
Posed(piece, x, rotation) ==
  [piece EXCEPT !.shape = RotateTimes(piece.shape, rotation), !.x = x, !.y = 0]

\* the piece lies inside the walls and on free cells of the grid
LegalPose(grid, piece) ==
  \A cell \in PieceCells(piece) :
    /\ cell[2] \in 0..(GRID_WIDTH - 1)
    /\ cell[1] < GRID_HEIGHT
    /\ (cell[1] >= 0 => grid[cell[1] + 1][cell[2] + 1] = NULL)

PoseXs == (0 - 4)..(GRID_WIDTH + 4)

\* the legal candidates <<rotation, x>> of a planner call
LegalCandidates(grid, piece) ==
  {rx \in (0..3) \X PoseXs : LegalPose(grid, Posed(piece, rx[2], rx[1]))}

\* the grid after the piece has fallen straight down from y = 0 and landed
Landed(grid, piece, rx) ==
  LET p0 == Posed(piece, rx[2], rx[1])
      stuck == {y \in 1..GRID_HEIGHT : ~LegalPose(grid, [p0 EXCEPT !.y = y])}
      rest == (CHOOSE y \in stuck : \A q \in stuck : y <= q) - 1
      cells == PieceCells([p0 EXCEPT !.y = rest])
  IN  [r \in 1..GRID_HEIGHT |->
        [c \in 1..GRID_WIDTH |->
           IF <<r - 1, c - 1>> \in cells THEN piece.color ELSE grid[r][c]]]

Occupied(g, r, c) == g[r][c] # NULL

FullRows(g) ==
  Cardinality({r \in 1..GRID_HEIGHT : \A c \in 1..GRID_WIDTH : Occupied(g, r, c)})

HeightOf(g, c) ==
  LET occ == {r \in 1..GRID_HEIGHT : Occupied(g, r, c)}
  IN  IF occ = {} THEN 0
      ELSE GRID_HEIGHT + 1 - (CHOOSE r \in occ : \A q \in occ : r <= q)

MaxHeight(g) ==
  LET hs == {HeightOf(g, c) : c \in 1..GRID_WIDTH}
  IN  CHOOSE h \in hs : \A k \in hs : k <= h

\* empty cells with an occupied cell above them in the same column
CoveredHoles(g) ==
  Cardinality({rc \in (1..GRID_HEIGHT) \X (1..GRID_WIDTH) :
                 /\ ~Occupied(g, rc[1], rc[2])
                 /\ \E q \in 1..(rc[1] - 1) : Occupied(g, q, rc[2])})

RECURSIVE BumpinessTo(_, _)
BumpinessTo(g, c) ==
  IF c <= 1 THEN 0
  ELSE BumpinessTo(g, c - 1) + Abs(HeightOf(g, c) - HeightOf(g, c - 1))

ScoreOf(g) ==
  1000 * FullRows(g) - 10 * MaxHeight(g) - 50 * CoveredHoles(g)
    - 5 * BumpinessTo(g, GRID_WIDTH)

\* rotation ascending, then x ascending
Before(a, b) == a[1] < b[1] \/ (a[1] = b[1] /\ a[2] < b[2])

\* the legal candidates whose landed grid has the maximal score
BestCandidates(grid, piece) ==
  LET scored == {<<rx, ScoreOf(Landed(grid, piece, rx))>> :
                   rx \in LegalCandidates(grid, piece)}
  IN  {s[1] : s \in {s \in scored : \A other \in scored : other[2] <= s[2]}}

\* C7: when some placement of the piece is legal at y = 0, the pair the
\* planner returns is one: its rotated shape at (x, 0) lies inside the walls
\* and on free cells.
C7_PlannedPlacementIsLegal ==
  \A p \in last.ev.plans :
    LegalCandidates(p.grid, p.piece) # {} =>
      /\ IsSome(p.result)
      /\ LegalPose(p.grid, Posed(p.piece, Val(p.result).x, Val(p.result).rotation))

\* the planner ran on a grid where some poses inside the walls are legal
\* and others collide with locked cells
C7_Witness ==
  \E p \in last.ev.plans :
    /\ LegalCandidates(p.grid, p.piece) # {}
    /\ \E x \in 0..(GRID_WIDTH - 4) : ~LegalPose(p.grid, Posed(p.piece, x, 0))
    /\ IsSome(p.result)

C9_FirstBestCandidate ==
  \A p \in last.ev.plans :
    LET best == BestCandidates(p.grid, p.piece)
    IN  best # {} =>
          /\ IsSome(p.result)
          /\ <<Val(p.result).rotation, Val(p.result).x>> \in best
          /\ \A other \in best :
               other = <<Val(p.result).rotation, Val(p.result).x>>
                 \/ Before(<<Val(p.result).rotation, Val(p.result).x>>, other)

\* the planner chose among several candidates of maximal score
C9_Witness ==
  \E p \in last.ev.plans :
    /\ Cardinality(BestCandidates(p.grid, p.piece)) > 1
    /\ IsSome(p.result)

\* C10: with the I piece on the grid whose bottom row is filled except
\* column c, the planner returns an upright placement in column c, whose
\* landing completes the bottom row; for every column c.
C10_CompletesBottomRow ==
  \A p \in last.ev.plans :
    \A c \in 0..(GRID_WIDTH - 1) :
      (p.piece.type = "I" /\ p.grid = BottomGap(c)) =>
        /\ IsSome(p.result)
        /\ LET rx == <<Val(p.result).rotation, Val(p.result).x>>
           IN  /\ \A cell \in PieceCells(Posed(p.piece, rx[2], rx[1])) : cell[2] = c
               /\ \A col \in 1..GRID_WIDTH :
                    Occupied(Landed(p.grid, p.piece, rx), GRID_HEIGHT, col)

\* the planner ran with the I piece on the grid whose gap is in column 5
C10_Witness ==
  \E p \in last.ev.plans :
    /\ p.piece.type = "I"
    /\ p.grid = BottomGap(5)
    /\ IsSome(p.result)
    /\ Val(p.result).rotation = 1

\* the rows the piece covers in the pose the planner returned
PlannedRows(p) ==
  {cell[1] : cell \in PieceCells(Posed(p.piece, Val(p.result).x, Val(p.result).rotation))}

\* C11: with the I piece on the empty grid the planner returns a pair under
\* which the four cells of the piece lie in one row.
C11_LaysIPieceFlat ==
  \A p \in last.ev.plans :
    (p.piece.type = "I" /\ p.grid = createEmptyGrid) =>
      /\ IsSome(p.result)
      /\ Cardinality(PlannedRows(p)) = 1

\* the planner ran on the empty grid with an I piece that stood upright
C11_Witness ==
  \E p \in last.ev.plans :
    /\ p.piece.type = "I"
    /\ p.grid = createEmptyGrid
    /\ Cardinality({rc[2] : rc \in ShapeCells(p.piece.shape)}) = 1
    /\ IsSome(p.result)
    /\ Val(p.result).rotation = 1

FullBelow(g, r) ==
  Cardinality({q \in (r + 1)..GRID_HEIGHT : IsFullRow(g[q])})

HasDimensions(g) ==
  /\ Len(g) = GRID_HEIGHT
  /\ \A r \in 1..GRID_HEIGHT : Len(g[r]) = GRID_WIDTH

\* C13 as stated: after clearLines removed k >= 1 rows the grid has H rows of
\* W cells, its k top rows are empty and every row that was not full is found
\* k rows lower.
C13_RowsShiftedByK ==
  \A e \in last.ev.clears :
    e.linesCleared >= 1 =>
      /\ HasDimensions(e.after)
      /\ \A r \in 1..e.linesCleared : e.after[r] = EmptyRow
      /\ \A r \in 1..GRID_HEIGHT :
           ~IsFullRow(e.before[r]) =>
             /\ r + e.linesCleared <= GRID_HEIGHT
             /\ e.after[r + e.linesCleared] = e.before[r]

\* C13 amended: after clearLines removed k >= 1 rows the grid has H rows of
\* W cells, its k top rows are empty and every row that was not full is found
\* lower by the number of full rows that were below it.
C13_RowsShiftedByFullRowsBelow ==
  \A e \in last.ev.clears :
    e.linesCleared >= 1 =>
      /\ HasDimensions(e.after)
      /\ \A r \in 1..e.linesCleared : e.after[r] = EmptyRow
      /\ \A r \in 1..GRID_HEIGHT :
           ~IsFullRow(e.before[r]) =>
             e.after[r + FullBelow(e.before, r)] = e.before[r]

\* a lock cleared two rows that were not adjacent
C13_Witness ==
  \E e \in last.ev.clears :
    /\ e.linesCleared = 2
    /\ IsFullRow(e.before[GRID_HEIGHT])
    /\ ~IsFullRow(e.before[GRID_HEIGHT - 1])
    /\ IsFullRow(e.before[GRID_HEIGHT - 2])

\* C14: clearLines called on a grid without a full row returns 0 and leaves
\* every cell of the grid as it was.
C14_NoFullRowNoChange ==
  \A e \in last.ev.clears :
    FullRows(e.before) = 0 => (e.linesCleared = 0 /\ e.after = e.before)

\* a piece was locked on a grid that had, after the lock, no full row but a
\* row filled except for its last column
C14_Witness ==
  \E e \in last.ev.clears :
    /\ FullRows(e.before) = 0
    /\ e.linesCleared = 0
    /\ \E r \in 1..GRID_HEIGHT :
         \A c \in 1..GRID_WIDTH : Occupied(e.before, r, c) <=> c # GRID_WIDTH

\* C15: four successive applications of rotateShape to the shape of a piece,
\* canonical or turned, give the shape back: same dimensions, same cells.
C15_FourRotationsAreIdentity ==
  \A i \in BoardIndices :
    IsSome(boards[i].currentPiece) =>
      LET shape == Val(boards[i].currentPiece).shape
      IN  rotateShape(rotateShape(rotateShape(rotateShape(shape)))) = shape

\* three keydowns of ArrowUp have turned the L piece three times: its shape
\* is neither the canonical one nor the one after one or two turns
C15_Witness ==
  /\ last.op.name = "keydown"
  /\ \E i \in BoardIndices :
       /\ IsSome(boards[i].currentPiece)
       /\ LET piece == Val(boards[i].currentPiece)
          IN  /\ piece.type = "L"
              /\ piece.shape = rotateShape(rotateShape(rotateShape(PIECES["L"])))
              /\ piece.shape # PIECES["L"]
              /\ piece.shape # rotateShape(PIECES["L"])
              /\ piece.shape # rotateShape(rotateShape(PIECES["L"]))

CapabilityFlags(b) ==
  <<b.index, b.aiHired, b.aiHardDropUnlocked, b.aiSpeedLevel, b.aiSpeed,
    b.forceNextPieceUnlocked>>

\* C16: resetBoard leaves the index and the capability flags of the board as
\* they were; after it the grid is all empty, the board is not game-over and
\* has a fresh piece at its spawn position.
C16_ResetKeepsCapabilities ==
  [][last'.op.name = "resetBoard" =>
       LET i == last'.op.board + 1
       IN  /\ Len(boards') = Len(boards)
           /\ CapabilityFlags(boards'[i]) = CapabilityFlags(boards[i])
           /\ boards'[i].grid = createEmptyGrid
           /\ ~boards'[i].isGameOver
           /\ IsSome(boards'[i].currentPiece)
           /\ \E t \in AllTypes : Val(boards'[i].currentPiece) = createPiece(t)]_vars

\* resetBoard has just reset a lost board that had every upgrade and whose
\* grid held locked cells
C16_Witness ==
  /\ last.op.name = "resetBoard"
  /\ LET b == boards[last.op.board + 1]
     IN  /\ isBoardMaxedOut(b)
         /\ b.aiSpeed # createBoard(0).aiSpeed
         /\ b.grid = createEmptyGrid
         /\ ~b.isGameOver

\* C17: forceNextPiece changes the queued next-piece type of its board and
\* the points balance, and nothing else: the active piece, the grid, the
\* control mode and the target of that board and all other boards stay as
\* they were.
C17_ForceNextPieceChangesQueueOnly ==
  [][last'.op.name = "forceNextPiece" =>
       LET i == last'.op.board + 1
       IN  /\ boards' = [boards EXCEPT ![i].nextPiece = last'.op.arg,
                                        ![i].forced = Some(last'.op.arg)]
           /\ activeBoardIndex' = activeBoardIndex
           /\ isGameOver' = isGameOver]_vars

\* forceNextPiece has just queued a type other than that of the piece in play
C17_Witness ==
  /\ last.op.name = "forceNextPiece"
  /\ LET b == boards[last.op.board + 1]
     IN  /\ b.nextPiece = last.op.arg
         /\ IsSome(b.currentPiece)
         /\ Val(b.currentPiece).type # last.op.arg

\* the grid, the piece and the queued piece of every board are as before
PlayUnchanged ==
  /\ Len(boards') = Len(boards)
  /\ \A j \in BoardIndices :
       /\ boards'[j].grid = boards[j].grid
       /\ boards'[j].currentPiece = boards[j].currentPiece
       /\ boards'[j].nextPiece = boards[j].nextPiece

\* C18: a keydown changes no board other than the active one, and when the
\* active board is autonomous or game-over, or the game is paused or over,
\* it changes no board's grid, piece or queued piece.
C18_CommandsOnlyOnHumanActiveBoard ==
  [][last'.op.name = "keydown" =>
       /\ Len(boards') = Len(boards)
       /\ \A j \in BoardIndices : j # activeBoardIndex + 1 => boards'[j] = boards[j]
       /\ (\/ boards[activeBoardIndex + 1].aiEnabled
           \/ boards[activeBoardIndex + 1].isGameOver
           \/ isPaused
           \/ isGameOver) => PlayUnchanged]_vars

\* a keydown arrived while the active board was autonomous and had a piece
\* in play, next to one other board
C18_Witness ==
  /\ last.op.name = "keydown"
  /\ ~isPaused
  /\ ~isGameOver
  /\ boards[activeBoardIndex + 1].aiEnabled
  /\ IsSome(boards[activeBoardIndex + 1].currentPiece)

\* the piece of board i is where it was, one row lower
OneRowDown(i) ==
  /\ IsSome(boards'[i].currentPiece)
  /\ Val(boards'[i].currentPiece).shape = Val(boards[i].currentPiece).shape
  /\ Val(boards'[i].currentPiece).x = Val(boards[i].currentPiece).x
  /\ Val(boards'[i].currentPiece).y = Val(boards[i].currentPiece).y + 1
  /\ boards'[i].grid = boards[i].grid

AtRest(board) ==
  LET piece == Val(board.currentPiece)
  IN  piece.y = DropToRest(piece, board.grid)

\* C19: the space key changes nothing unless hardDropUnlocked is set,
\* whatever the board's aiHardDropUnlocked; the executor's drop step locks
\* the piece where it comes to rest if the board's aiHardDropUnlocked is set
\* and otherwise moves it down one row (locking it only if it was at rest),
\* whatever hardDropUnlocked.
C19_HardDropOnlyUnderItsFlag ==
  /\ [][(last'.op.name = "keydown" /\ last'.op.arg = " " /\ ~hardDropUnlocked) =>
          /\ boards' = boards
          /\ globalPoints' = globalPoints
          /\ globalLinesCleared' = globalLinesCleared
          /\ isGameOver' = isGameOver]_vars
  /\ [][\A i \in BoardIndices :
          (last'.op.name = "tick" /\ (i - 1) \in last'.ev.dropped) =>
            IF boards[i].aiHardDropUnlocked
            THEN (i - 1) \in last'.ev.locked
            ELSE IF (i - 1) \in last'.ev.locked THEN AtRest(boards[i])
                 ELSE OneRowDown(i)]_vars

\* the executor's drop step has moved a piece down one row on a board
\* without the AI hard drop, the human hard drop being unlocked
C19_Witness ==
  \E i \in BoardIndices :
    /\ last.op.name = "tick"
    /\ (i - 1) \in last.ev.dropped
    /\ (i - 1) \notin last.ev.locked
    /\ hardDropUnlocked
    /\ ~boards[i].aiHardDropUnlocked

\* the space key has arrived on a human-controlled board whose AI hard drop
\* is unlocked, the human hard drop being locked
C19_SpaceWithoutFlag ==
  /\ last.op.name = "keydown"
  /\ last.op.arg = " "
  /\ ~hardDropUnlocked
  /\ ~isPaused
  /\ ~isGameOver
  /\ ~boards[activeBoardIndex + 1].aiEnabled
  /\ boards[activeBoardIndex + 1].aiHardDropUnlocked
  /\ IsSome(boards[activeBoardIndex + 1].currentPiece)

\* the window's counter of board i follows the locks: set to 30 by a
\* take-control, one less after each lock, and the AI is back at the lock
\* that takes it from 1 to 0 unless that lock ended the board's game
WindowCountsLocks(i) ==
  LET b == boards[i]
      b2 == boards'[i]
      locked == (i - 1) \in last'.ev.locked
  IN  IF last'.op.name = "activateTakeControl" /\ last'.op.board = i - 1
      THEN /\ b.aiEnabled
           /\ ~b2.aiEnabled
           /\ b2.playerControlPiecesRemaining = TAKE_CONTROL_PIECES
      ELSE /\ b2.playerControlPiecesRemaining =
                IF locked /\ b.playerControlPiecesRemaining > 0
                THEN b.playerControlPiecesRemaining - 1
                ELSE b.playerControlPiecesRemaining
           /\ (locked /\ b.playerControlPiecesRemaining = 1) =>
                (b2.aiEnabled \/ b2.isGameOver)

TimedOut(i) ==
  /\ last'.op.name = "tick"
  /\ ~isPaused
  /\ ~isGameOver
  /\ ~boards[i].isGameOver
  /\ boards[i].aiEnabled
  /\ IsSome(boards[i].currentPiece)
  /\ Val(boards[i].currentPiece).aiStartTime # 0
  /\ now' - Val(boards[i].currentPiece).aiStartTime > SAFETY_TIMEOUT

Pose(piece) == [shape |-> piece.shape, x |-> piece.x, y |-> piece.y]

\* the poses one primitive action can give a piece that stays in play: none,
\* one cell left, right or down, or one rotation with one of its kicks
OneActionPoses(piece) ==
  {Pose(piece)}
    \cup {Pose([piece EXCEPT !.x = @ + d]) : d \in {-1, 1}}
    \cup {Pose([piece EXCEPT !.y = @ + 1])}
    \cup {Pose([piece EXCEPT !.shape = rotateShape(@),
                             !.x = @ + Kicks[k].dx,
                             !.y = @ + Kicks[k].dy]) : k \in 1..Len(Kicks)}

\* what the step now taken did on board i is one primitive action at most:
\* either the piece stays in play on the same grid, one action away; or it
\* was locked once, where it was (at rest) or where the executor's hard drop
\* took it, and after the line clearing the next piece stands unmoved at
\* its spawn position
AtMostOneAction(i) ==
  LET b == boards[i]
      b2 == boards'[i]
      mine == {c \in last'.ev.clears : c.board = i - 1}
  IN  IF IsNone(b.currentPiece)
      THEN b2.grid = b.grid /\ IsNone(b2.currentPiece) /\ mine = {}
      ELSE IF (i - 1) \in last'.ev.locked
      THEN LET piece == Val(b.currentPiece)
               rest == [piece EXCEPT !.y = DropToRest(piece, b.grid)]
           IN  /\ Cardinality(mine) = 1
               /\ \/ AtRest(b)
                  \/ b.aiEnabled /\ b.aiHardDropUnlocked /\ (i - 1) \in last'.ev.dropped
               /\ \A c \in mine :
                    /\ c.before = StampPiece(b.grid, rest)
                    /\ (i - 1) \notin last'.ev.spawnCollided =>
                         /\ b2.grid = c.after
                         /\ IsSome(b2.currentPiece)
                         /\ Pose(Val(b2.currentPiece)) = Pose(createPiece(b.nextPiece))
      ELSE /\ b2.grid = b.grid
           /\ mine = {}
           /\ IsSome(b2.currentPiece)
           /\ Pose(Val(b2.currentPiece)) \in OneActionPoses(Val(b.currentPiece))

\* C22: in one tick each board performs at most one primitive action,
\* followed by at most one lock with its line clearing and respawn.
C22_OneActionPerBoardPerTick ==
  [][last'.op.name = "tick" => \A i \in BoardIndices : AtMostOneAction(i)]_vars

\* a tick in which the planner chose a target and the executor took its
\* first step towards it, a rotation
C22_Witness ==
  \E i \in BoardIndices :
    /\ last.op.name = "tick"
    /\ (i - 1) \in last.ev.planned
    /\ (i - 1) \in last.ev.executed
    /\ (i - 1) \notin last.ev.locked
    /\ IsSome(boards[i].currentPiece)
    /\ Val(boards[i].currentPiece).aiRotations = 1
    /\ Val(boards[i].currentPiece).shape # createPiece(Val(boards[i].currentPiece).type).shape

\* the most calls of Math.random one board's step makes: one by the spawn
\* after a lock, two more by the spawn of an auto-reset
StepDraws == 3

\* the step of board i (1-based), taken alone from the state before the
\* tick with random outcomes r, gives board i its state after the tick and
\* leaves every other board as it was before the tick
SteppedAlone(i, r) ==
  LET w == StepBoard(World(r, now'), i - 1, now')
  IN  /\ w.boards[i] = boards'[i]
      /\ \A j \in BoardIndices : j # i => w.boards[j] = boards[j]

\* C23: in a tick, each board's new state is the result of its own step on
\* the state before the tick, and that step changes no other board: the
\* order in which the boards are stepped does not matter.
C23_BoardsSteppedIndependently ==
  [][(last'.op.name = "tick" /\ ~isPaused /\ ~isGameOver) =>
       /\ Len(boards') = Len(boards)
       /\ \A i \in BoardIndices : \E r \in [1..StepDraws -> Types] : SteppedAlone(i, r)]_vars

\* a tick of a two-board game in which the minified board locked a piece
\* and the active board fell one row
C23_Witness ==
  /\ last.op.name = "tick"
  /\ Len(boards) = 2
  /\ 0 \in last.ev.locked
  /\ ~boards[2].isGameOver
  /\ boards[2].lastDropTime = now
  /\ IsSome(boards[2].currentPiece)
  /\ Val(boards[2].currentPiece).y > 0

\* C24: the game ends in exactly the steps in which the spawn on the active
\* board collides (a lost non-active board does not end it), and once it
\* has ended ticks and keys change no board's grid, piece or queued piece.
C24_GameEndsWithActiveBoard ==
  /\ [][(isGameOver' /\ ~isGameOver) <=>
           (activeBoardIndex' \in last'.ev.spawnCollided)]_vars
  /\ [][(isGameOver /\ last'.op.name \in {"tick", "keydown"}) =>
           (isGameOver' /\ PlayUnchanged)]_vars

\* a key has arrived after the game ended on a filled active board
C24_Witness ==
  /\ isGameOver
  /\ last.op.name = "keydown"
  /\ last.ev.spawnCollided = {}
  /\ boards[activeBoardIndex + 1].isGameOver
  /\ boards[activeBoardIndex + 1].grid # createEmptyGrid

\* a non-active board has just been lost and the game goes on
C24_MinifiedBoardLost ==
  /\ ~isGameOver
  /\ last.op.name = "tick"
  /\ \E i \in BoardIndices : i - 1 # activeBoardIndex /\ (i - 1) \in last.ev.spawnCollided

\* the reference line clearing: the rows that are not full, in their order,
\* under as many empty rows as there were full rows
HasGap(row) == \E c \in 1..GRID_WIDTH : row[c] = NULL

ReferenceClear(g) ==
  LET kept == SelectSeq(g, HasGap)
      k == Len(g) - Len(kept)
  IN  [grid |-> [r \in 1..k |-> EmptyRow] \o kept, linesCleared |-> k]

\* C25: every call of clearLines leaves the grid the reference operator
\* gives and returns its count, and no full row remains.
C25_ClearLinesMatchesReference ==
  \A e \in last.ev.clears :
    /\ e.after = ReferenceClear(e.before).grid
    /\ e.linesCleared = ReferenceClear(e.before).linesCleared
    /\ FullRows(e.after) = 0

\* three rows cleared at once: the two bottom rows and, above a row that
\* stays, a third one
C25_Witness ==
  \E e \in last.ev.clears :
    /\ e.linesCleared = 3
    /\ ~HasGap(e.before[GRID_HEIGHT])
    /\ ~HasGap(e.before[GRID_HEIGHT - 1])
    /\ HasGap(e.before[GRID_HEIGHT - 2])
    /\ ~HasGap(e.before[GRID_HEIGHT - 3])
    /\ e.after[GRID_HEIGHT] = e.before[GRID_HEIGHT - 2]

\* the piece after one rotation with kick k
Kicked(piece, k) ==
  [piece EXCEPT !.shape = rotateShape(@), !.x = @ + Kicks[k].dx, !.y = @ + Kicks[k].dy]

\* the key just pressed reached the handler's switch on a piece in play
KeyHandled(key) ==
  /\ last'.op.name = "keydown"
  /\ last'.op.arg = key
  /\ ~isPaused
  /\ ~isGameOver
  /\ ~boards[activeBoardIndex + 1].isGameOver
  /\ ~boards[activeBoardIndex + 1].aiEnabled
  /\ IsSome(boards[activeBoardIndex + 1].currentPiece)

\* C26: a horizontal translate whose target collides, and a rotate whose
\* six attempts all collide (or of the square piece), return false and
\* leave the piece and the grid as they were.
C26_FailedMoveChangesNothing ==
  [][LET i == activeBoardIndex
         b == boards[i + 1]
         piece == Val(b.currentPiece)
         W == World(<<>>, now')
     IN  /\ \A d \in {-1, 1} :
              (KeyHandled(IF d = 1 THEN "ArrowRight" ELSE "ArrowLeft")
                 /\ ~LegalPose(b.grid, [piece EXCEPT !.x = @ + d])) =>
                (~movePieceHorizontally(W, i, d).ok /\ boards' = boards)
         /\ (KeyHandled("ArrowUp")
                /\ (piece.type = "O"
                      \/ \A k \in 1..Len(Kicks) : ~LegalPose(b.grid, Kicked(piece, k)))) =>
              (~rotatePiece(W, i).ok /\ boards' = boards)]_vars

\* the rotate key has arrived on the upright I piece at rest in a shaft one
\* column wide, where the turned piece fits nowhere
C26_Witness ==
  /\ last.op.name = "keydown"
  /\ last.op.arg = "ArrowUp"
  /\ LET b == boards[activeBoardIndex + 1]
     IN  /\ ~b.aiEnabled
         /\ IsSome(b.currentPiece)
         /\ Val(b.currentPiece).type = "I"
         /\ Val(b.currentPiece).y = GRID_HEIGHT - 4
         /\ \A k \in 1..Len(Kicks) : ~LegalPose(b.grid, Kicked(Val(b.currentPiece), k))

\* the positions a rotate may end at, in the order of preference: unshifted,
\* x+1, x-1, x+2, x-2, then y-1 with the original x
RotateOffsets == << <<0, 0>>, <<1, 0>>, <<-1, 0>>, <<2, 0>>, <<-2, 0>>, <<0, -1>> >>

RotatedAt(piece, k) ==
  [piece EXCEPT !.shape = rotateShape(@), !.x = @ + RotateOffsets[k][1],
                !.y = @ + RotateOffsets[k][2]]

FreeOffsets(grid, piece) ==
  {k \in 1..Len(RotateOffsets) : LegalPose(grid, RotatedAt(piece, k))}

\* C27: a rotate of a piece other than the square one, when some attempt is
\* free, leaves the rotated piece at the first free position of the order
\* and succeeds; a rotate of the square piece changes nothing.
C27_RotateTakesFirstFreeKick ==
  [][KeyHandled("ArrowUp") =>
       LET i == activeBoardIndex
           b == boards[i + 1]
           piece == Val(b.currentPiece)
           free == FreeOffsets(b.grid, piece)
       IN  IF piece.type = "O" THEN boards' = boards
           ELSE free # {} =>
                  /\ rotatePiece(World(<<>>, now'), i).ok
                  /\ boards' = [boards EXCEPT ![i + 1].currentPiece =
                        Some(RotatedAt(piece, CHOOSE k \in free : \A q \in free : k <= q))]]_vars

\* the upright I piece that stood against the left wall has been rotated:
\* it lies flat at x = 0, two columns to the right (of the boards the games
\* start from, only that one gives this piece after one key)
C27_Witness ==
  /\ last.op.name = "keydown"
  /\ last.op.arg = "ArrowUp"
  /\ budget.keys = KickKeys - 1
  /\ LET piece == Val(boards[activeBoardIndex + 1].currentPiece)
     IN  /\ piece.type = "I"
         /\ piece.shape = RotateTimes(PIECES["I"], 2)
         /\ piece.x = 0
         /\ piece.y = 0

\* movePieceDown on board i, again and again until it fails
RECURSIVE DownUntilLocked(_, _)
DownUntilLocked(w, i) ==
  LET r == movePieceDown(w, i)
  IN  IF r.ok THEN DownUntilLocked(r.w, i) ELSE r.w

\* the step now taken left what DownUntilLocked leaves on board i (0-based)
\* from the state before it, for random outcomes r
SameAsStepwise(i, r) ==
  LET w == DownUntilLocked(World(r, now'), i)
  IN  /\ boards' = w.boards
      /\ globalPoints' = w.globalPoints
      /\ globalLinesCleared' = w.globalLinesCleared
      /\ isGameOver' = w.isGameOver
      /\ last'.ev = w.ev

\* C28: a hard drop leaves the boards, the points, the cleared-line count
\* and the game-over flag that single-row translates repeated until one
\* fails would leave: the same cells locked, the same lines cleared, the
\* same respawn.
C28_HardDropIsRepeatedSoftDrop ==
  [][(KeyHandled(" ") /\ hardDropUnlocked) =>
       \E r \in [1..StepDraws -> Types] : SameAsStepwise(activeBoardIndex, r)]_vars

\* a hard drop from the top of the grid has locked the upright I piece in
\* the shaft and cleared lines
C28_Witness ==
  /\ last.op.name = "keydown"
  /\ last.op.arg = " "
  /\ hardDropUnlocked
  /\ activeBoardIndex \in last.ev.locked
  /\ \E e \in last.ev.clears :
       /\ e.linesCleared >= 2
       /\ e.before[2] = EmptyRow
       /\ e.before[GRID_HEIGHT - 3][1] # NULL

\* the lock now made on board i wrote the piece's colour into the cells the
\* piece covered where it came to rest, those above the grid left out, and
\* into no other cell, and the board had no piece when clearLines ran
LockStampsPiece(i) ==
  LET b == boards[i]
      piece == Val(b.currentPiece)
      cells == PieceCells([piece EXCEPT !.y = DropToRest(piece, b.grid)])
      mine == {e \in last'.ev.clears : e.board = i - 1}
  IN  /\ Cardinality(mine) = 1
      /\ \A e \in mine :
           /\ IsNone(e.pieceThen)
           /\ \A r \in 1..GRID_HEIGHT : \A c \in 1..GRID_WIDTH :
                e.before[r][c] = IF <<r - 1, c - 1>> \in cells THEN piece.color
                                 ELSE b.grid[r][c]

\* C29: before line clearing, a lock has changed exactly the grid cells the
\* piece covers, to the piece's colour, and the board has no active piece.
C29_LockStampsExactlyThePiece ==
  [][last'.op.name \in {"keydown", "tick"} =>
       \A i \in BoardIndices : (i - 1) \in last'.ev.locked => LockStampsPiece(i)]_vars

\* a T piece kicked one row above the stack has been locked: three of its
\* cells are in the two top rows, the fourth was above the grid
C29_Witness ==
  /\ last.op.name = "keydown"
  /\ \E e \in last.ev.clears :
       /\ Cardinality({rc \in (1..2) \X (1..GRID_WIDTH) :
                         e.before[rc[1]][rc[2]] = PIECE_COLORS["T"]}) = 3
       /\ \A r \in 3..GRID_HEIGHT : e.before[r] = SealedGrid[r]

\* board i (1-based) after the step is what updateAI alone makes of it
OnlyExecutor(i, r) ==
  boards'[i] = B(updateAI(World(r, now'), i - 1, now'), i - 1)

\* board i after the step is what gravity alone makes of it: one downward
\* translate if more than DROP_SPEED has passed since the last one
OnlyGravity(i, r) ==
  LET W == World(r, now')
  IN  IF now' - boards[i].lastDropTime > DROP_SPEED
      THEN boards'[i] = [B(movePieceDown(W, i - 1).w, i - 1) EXCEPT !.lastDropTime = now',
                                                                    !.fellAt = Some(now')]
      ELSE boards'[i] = boards[i]

\* C30: a tick leaves a board in game-over as it is, steps an autonomous
\* board by the executor only, gives a human board gravity only if it is
\* the active board, and leaves any other human board as it is.
C30_TickStepsByMode ==
  [][(last'.op.name = "tick" /\ ~isPaused /\ ~isGameOver) =>
       \A i \in BoardIndices :
         IF boards[i].isGameOver THEN boards'[i] = boards[i]
         ELSE IF boards[i].aiEnabled
         THEN \E r \in [1..StepDraws -> Types] : OnlyExecutor(i, r)
         ELSE IF i - 1 = activeBoardIndex
         THEN \E r \in [1..StepDraws -> Types] : OnlyGravity(i, r)
         ELSE boards'[i] = boards[i]]_vars

\* a tick of a two-board game in which the lost board was passed over and
\* the human active board fell under gravity
C30_Witness ==
  /\ last.op.name = "tick"
  /\ ~isGameOver
  /\ Len(boards) = 2
  /\ boards[1].isGameOver
  /\ 0 \notin last.ev.spawnCollided
  /\ ~boards[2].aiEnabled
  /\ boards[2].lastDropTime = now

\* C31: an executor move on an autonomous board comes more than the
\* board's aiSpeed after the executor's previous move on that board, and a
\* gravity drop more than DROP_SPEED after the previous gravity drop on
\* that board.
C31_MovesArePaced ==
  [][last'.op.name = "tick" =>
       \A i \in BoardIndices :
         /\ ((i - 1) \in last'.ev.executed /\ IsSome(boards[i].stepAt)) =>
              (now' - Val(boards[i].stepAt)) * boards[i].aiSpeed.den > boards[i].aiSpeed.num
         /\ (boards'[i].fellAt = Some(now') /\ IsSome(boards[i].fellAt)) =>
              now' - Val(boards[i].fellAt) > DROP_SPEED]_vars

\* an autonomous board at the base cadence, two frames after the executor's
\* first move on its piece: the frame that came too early was passed over
\* and this one has made the second move
C31_Witness ==
  \E i \in BoardIndices :
    /\ last.op.name = "tick"
    /\ (i - 1) \in last.ev.executed
    /\ boards[i].aiSpeedLevel = 0
    /\ budget.frames = 0
    /\ IsSome(boards[i].currentPiece)
    /\ Val(boards[i].currentPiece).execSteps = 2

\* the human board has fallen under gravity for the second time
C31_SecondGravityDrop ==
  \E i \in BoardIndices :
    /\ last.op.name = "tick"
    /\ ~boards[i].aiEnabled
    /\ boards[i].fellAt = Some(now)
    /\ IsSome(boards[i].currentPiece)
    /\ Val(boards[i].currentPiece).y = 2

\* the board was reset during the step, or its spawn collided
ResetOrLost(i) ==
  \/ last'.op.name \in {"resetBoard", "resetGame"}
  \/ (i - 1) \in last'.ev.spawnCollided

\* C32: a piece spawned after a lock has the type that was queued as next
\* piece just before, and when that queue entry was put there by
\* forceNextPiece and the board has not been reset since, it is the forced
\* type.
C32_SpawnTakesQueuedType ==
  [][\A i \in BoardIndices :
       ((i - 1) \in last'.ev.locked /\ ~ResetOrLost(i)) =>
         /\ IsSome(boards'[i].currentPiece)
         /\ Val(boards'[i].currentPiece).type = boards[i].nextPiece
         /\ (i - 1) \in last'.ev.forcedSpawn <=> IsSome(boards[i].forced)
         /\ IsSome(boards[i].forced) =>
              Val(boards'[i].currentPiece).type = Val(boards[i].forced)]_vars

\* a lock has just brought a forced type into play, and the grid holds
\* cells of another type
C32_Witness ==
  \E i \in BoardIndices :
    /\ (i - 1) \in last.ev.forcedSpawn
    /\ (i - 1) \in last.ev.locked
    /\ (i - 1) \notin last.ev.spawnCollided
    /\ IsSome(boards[i].currentPiece)
    /\ \E r \in 1..GRID_HEIGHT, c \in 1..GRID_WIDTH :
         boards[i].grid[r][c] \notin {NULL, Val(boards[i].currentPiece).color}

\* the board is autonomous, in play and holds a piece
HoldsPiece(i) ==
  /\ i \in BoardIndices
  /\ ~isPaused /\ ~isGameOver
  /\ boards[i].aiEnabled /\ ~boards[i].isGameOver
  /\ IsSome(boards[i].currentPiece)

\* C33: while frames keep coming, an autonomous board that is in play and
\* holds a piece eventually sees a piece locked.  Frames are counted down in
\* the model, so the property is stated for the states from which
\* LockFrames frames are still to come.
C33_PieceEventuallyLocked ==
  \A i \in 1..MaxModelBoards :
    (HoldsPiece(i) /\ budget.frames >= LockFrames) ~> ((i - 1) \in last.ev.locked)

\* a piece has been locked by the safety timeout's drop after the executor
\* had acted on it
C33_Witness ==
  \E i \in BoardIndices :
    /\ (i - 1) \in last.ev.locked
    /\ (i - 1) \notin last.ev.executed
    /\ boards[i].targetSteps > 0
    /\ boards[i].aiHired

\* C34: when calculateBestMove is called for a piece the counter of applied
\* rotations of that piece is 0; and when the executor has made a sideways
\* or drop step for a target with no failed rotate since the target was
\* planned, it has rotated the piece target.rotation times since then.
C34_CounterStartsAtZeroPerPlan ==
  /\ \A e \in last.ev.plans : e.piece.aiRotations = 0
  /\ \A i \in BoardIndices :
       ((i - 1) \in last.ev.executed /\ (i - 1) \notin last.ev.turned
          /\ ~boards[i].turnFailed) =>
         boards[i].turns = boards[i].planTurns

\* the executor has gone on to its sideways or drop step for a target that
\* asks for a rotation, without having tried one since the target was planned
C34_RotationSkipped ==
  \E i \in BoardIndices :
    /\ (i - 1) \in last.ev.executed
    /\ (i - 1) \notin last.ev.turned
    /\ ~boards[i].turnFailed
    /\ boards[i].turns = 0
    /\ boards[i].planTurns > 0

\* the piece on board i was planned for as it spawned, and the executor has
\* carried the plan out by its hard drop with every rotate succeeding
\* without a kick (a failed sideways step abandons the target)
PlanCarriedOut(i) ==
  /\ (i - 1) \in last.ev.dropped
  /\ boards[i].aiHardDropUnlocked
  /\ boards[i].planFresh
  /\ ~boards[i].turnFailed /\ ~boards[i].kicked
  /\ boards[i].turns = boards[i].planTurns
  /\ IsSome(boards[i].planGrid)

\* C35: when the executor hard-drops a piece it planned for as spawned, all
\* rotates of the plan having succeeded without a kick, the grid as lockPiece
\* leaves it before lines are cleared is the grid simulateMove returned for
\* the chosen move.
C35_LockMatchesSimulation ==
  \A i \in BoardIndices :
    PlanCarriedOut(i) =>
      \E e \in last.ev.clears :
        /\ e.board = i - 1
        /\ e.before = Val(boards[i].planGrid)

\* a plan with a rotation and sideways steps has been carried out
C35_Witness ==
  \E i \in BoardIndices :
    /\ PlanCarriedOut(i)
    /\ boards[i].planTurns > 0
    /\ boards[i].targetSteps > boards[i].planTurns + 1

\* the cells in which grid g differs from grid h
ChangedCells(g, h) ==
  {rc \in (1..GRID_HEIGHT) \X (1..GRID_WIDTH) : g[rc[1]][rc[2]] # h[rc[1]][rc[2]]}

\* C36: after every step no cell of a piece in play is above the top row,
\* and every lock made in the step has changed exactly four cells of the
\* grid before the lines were cleared.
C36_LockAddsFourCells ==
  [][/\ \A i \in 1..Len(boards') :
          IsSome(boards'[i].currentPiece) =>
            \A cell \in PieceCells(Val(boards'[i].currentPiece)) : cell[1] >= 0
     /\ \A i \in BoardIndices :
          (i - 1) \in last'.ev.locked =>
            \A e \in last'.ev.clears :
              e.board = i - 1 => Cardinality(ChangedCells(e.before, boards[i].grid)) = 4]_vars

\* a piece in play has a cell above the top row
C36_CellAboveTopRow ==
  \E i \in BoardIndices :
    /\ IsSome(boards[i].currentPiece)
    /\ \E cell \in PieceCells(Val(boards[i].currentPiece)) : cell[1] < 0

\* C37: between operations every board that is not in game-over holds a
\* piece, and a board in game-over holds none: a lock is followed in the same
\* operation by a spawn that succeeds, by a reset that spawns, or by the
\* board's game-over.
C37_OnePieceUnlessLost ==
  \A i \in BoardIndices : IsSome(boards[i].currentPiece) <=> ~boards[i].isGameOver

\* a piece has just been locked and the next one has spawned
C37_Witness ==
  \E i \in BoardIndices :
    /\ (i - 1) \in last.ev.locked
    /\ (i - 1) \notin last.ev.spawnCollided
    /\ ~boards[i].isGameOver
    /\ IsSome(boards[i].currentPiece)
    /\ Val(boards[i].currentPiece).y = 0

\* a lost board has just been reset and holds a piece again
C37_ResetSpawns ==
  /\ last.op.name = "resetBoard"
  /\ LET b == boards[last.op.board + 1]
     IN  ~b.isGameOver /\ IsSome(b.currentPiece) /\ b.grid = createEmptyGrid

\* a spawn has collided on a board that was then reset at once
C37_AutoResetSpawns ==
  \E i \in BoardIndices :
    /\ (i - 1) \in last.ev.spawnCollided
    /\ ~boards[i].isGameOver
    /\ IsSome(boards[i].currentPiece)

\* between 1 and MAX_BOARDS boards, each at the position its index names,
\* the last one active
BoardsInOrder(bs, active) ==
  /\ Len(bs) >= 1
  /\ Len(bs) <= MAX_BOARDS
  /\ \A i \in 1..Len(bs) : bs[i].index = i - 1
  /\ active = Len(bs) - 1

\* C38: there are between 1 and MAX_BOARDS boards, the index of each is its
\* position and the active board is the last one; the collection grows only
\* by one board, in unlockNextBoard, when it held fewer than MAX_BOARDS
\* boards and the last of them was maxed out.
C38_BoardsInOrderActiveLast ==
  [][/\ BoardsInOrder(boards, activeBoardIndex)
     /\ BoardsInOrder(boards', activeBoardIndex')
     /\ Len(boards') # Len(boards) =>
          /\ last'.op.name = "unlockNextBoard"
          /\ Len(boards') = Len(boards) + 1
          /\ Len(boards) < MAX_BOARDS
          /\ isBoardMaxedOut(boards[Len(boards)])]_vars

\* the seventh board has been unlocked and a further call of unlockNextBoard
\* has changed nothing
C38_Witness ==
  /\ last.op.name = "unlockNextBoard"
  /\ Len(boards) = MAX_BOARDS
  /\ budget.clicks = 0
  /\ globalPoints = BoardsPoints - getNextBoardUnlockCost(MAX_BOARDS - 1)
  /\ boards[MAX_BOARDS - 1].isMinified

\* C39: every board that is not in game-over is autonomous or is the active
\* board, so that a tick steps it: a board other than the active one is
\* autonomous or in game-over.
C39_NoBoardFrozen ==
  \A i \in BoardIndices :
    ~boards[i].isGameOver => (boards[i].aiEnabled \/ i - 1 = activeBoardIndex)

\* a board left behind in the middle of a take-control window has been
\* stepped by the executor
C39_Witness ==
  \E i \in BoardIndices :
    /\ last.op.name = "tick"
    /\ i - 1 # activeBoardIndex
    /\ boards[i].playerControlPiecesRemaining > 0
    /\ boards[i].aiEnabled
    /\ (i - 1) \in last.ev.executed

\* C40: a board whose AI is enabled has its AI hired.
C40_EnabledOnlyIfHired ==
  \A i \in BoardIndices : boards[i].aiEnabled => boards[i].aiHired

\* resetBoard has just made a lost board autonomous again
C40_Witness ==
  /\ last.op.name = "resetBoard"
  /\ LET b == boards[last.op.board + 1]
     IN  b.aiEnabled /\ b.aiHired /\ ~b.isGameOver /\ b.isMinified

\* a take-control window has ended with the player's lock and the board is
\* the AI's again, while the player has bought no AI on another board
C40_WindowEnded ==
  \E i \in BoardIndices :
    /\ last.op.name = "keydown"
    /\ (i - 1) \in last.ev.locked
    /\ boards[i].playerControlPiecesRemaining = 0
    /\ boards[i].aiEnabled /\ boards[i].aiHired
    /\ \A j \in BoardIndices : j # i => ~boards[j].aiEnabled

====
